---- MODULE Spec2Model ----
(***************************************************************************)
(* Model of modbus_test_app: the server lifecycle manager (servers.py),    *)
(* the register-address translation and value parsing (data_model.py).     *)
(*                                                                         *)
(* One UI thread calls start/stop/configure/apply_configuration; every     *)
(* start() that gets past the is_running() test spawns a background thread *)
(* that runs _run_thread/_start_async.  The background threads share the   *)
(* fields of the BaseServer object with the caller and with each other.    *)
(***************************************************************************)
EXTENDS Integers, Sequences, FiniteSets, TLC

\* Bound of the model: number of background threads alive at a time (the
\* thread objects; one that has finished and is referenced no more is reused).
MaxThreads == 2

\* Bound of the model: number of mutations of initials mappings made by callers.
MaxMutations == 2

Servers == {"battery", "master"}
Owners == {"cfg", "battery", "master"}
RegTypes == {"holding", "input", "coils", "discrete"}
TIDs == 1..MaxThreads
NoRef == 0

(***************************************************************************)
(* data_model.py                                                           *)
(***************************************************************************)
REGISTER_BASES == [holding |-> 40001, input |-> 30001, coils |-> 1, discrete |-> 10001]

\* Python values that occur as register addresses and raw register values.
PyInt(n) == [kind |-> "int", val |-> n]
PyStr(s) == [kind |-> "str", val |-> s]

\* Result of a call that returns an int or raises.
Ok(n) == [ok |-> TRUE, val |-> n, err |-> "None"]
Raise(e) == [ok |-> FALSE, val |-> 0, err |-> e]

DecDigits == <<"0", "1", "2", "3", "4", "5", "6", "7", "8", "9">>
HexDigits == DecDigits \o <<"a", "b", "c", "d", "e", "f">>
IsWs(c) == c \in {" ", "\t", "\n"}
Lower(c) == CASE c = "A" -> "a" [] c = "B" -> "b" [] c = "C" -> "c" [] c = "D" -> "d"
              [] c = "E" -> "e" [] c = "F" -> "f" [] c = "X" -> "x" [] c = "O" -> "o"
              [] c = "I" -> "i" [] c = "N" -> "n" [] c = "S" -> "s" [] c = "T" -> "t"
              [] c = "Y" -> "y" [] OTHER -> c
DigitVal(c) == IF \E i \in 1..16 : HexDigits[i] = Lower(c)
               THEN (CHOOSE i \in 1..16 : HexDigits[i] = Lower(c)) - 1
               ELSE 99

RECURSIVE LStrip(_)
LStrip(s) == IF s # <<>> /\ IsWs(Head(s)) THEN LStrip(Tail(s)) ELSE s
RECURSIVE RStrip(_)
RStrip(s) == IF s # <<>> /\ IsWs(s[Len(s)]) THEN RStrip(SubSeq(s, 1, Len(s) - 1)) ELSE s
\* str.strip()
Strip(s) == RStrip(LStrip(s))

\* Underscores of an int literal: each one must stand between two digits
\* (or between the base prefix and a digit when afterPrefix).
UnderscoresOk(body, afterPrefix) ==
    \A i \in 1..Len(body) :
        body[i] = "_" =>
            /\ i < Len(body) /\ body[i + 1] # "_"
            /\ (i > 1 \/ afterPrefix)
RECURSIVE DropUnderscores(_)
DropUnderscores(s) ==
    IF s = <<>> THEN <<>>
    ELSE IF Head(s) = "_" THEN DropUnderscores(Tail(s))
    ELSE <<Head(s)>> \o DropUnderscores(Tail(s))
RECURSIVE DigitsValue(_, _, _)
DigitsValue(s, base, acc) ==
    IF s = <<>> THEN acc ELSE DigitsValue(Tail(s), base, acc * base + DigitVal(Head(s)))

\* The digits of an int literal of the given base, underscores dropped: no
\* leading zeros in a non-zero decimal literal.
PyIntDigits(digs, base) ==
    IF digs = <<>> THEN Raise("ValueError")
    ELSE IF \E i \in 1..Len(digs) : DigitVal(digs[i]) >= base THEN Raise("ValueError")
    ELSE IF base = 10 /\ digs[1] = "0" /\ \E i \in 1..Len(digs) : digs[i] # "0"
         THEN Raise("ValueError")
    ELSE Ok(DigitsValue(digs, base, 0))

PyIntBody(body, base) ==
    IF UnderscoresOk(body, base # 10) THEN PyIntDigits(DropUnderscores(body), base)
    ELSE Raise("ValueError")

\* The base a literal's prefix names (0x, 0o, 0b), else 10.
PyIntPrefix(pre) ==
    CASE pre = "x" -> 16 [] pre = "o" -> 8 [] pre = "b" -> 2 [] OTHER -> 10

\* The unsigned part of int(text, 0).
PyIntUnsigned(u) ==
    IF Len(u) >= 2 /\ u[1] = "0" /\ PyIntPrefix(Lower(u[2])) # 10
    THEN PyIntBody(SubSeq(u, 3, Len(u)), PyIntPrefix(Lower(u[2])))
    ELSE PyIntBody(u, 10)

Negated(r) == IF r.ok THEN Ok(0 - r.val) ELSE r

PyIntSigned(t) ==
    IF t # <<>> /\ Head(t) = "-" THEN Negated(PyIntUnsigned(Tail(t)))
    ELSE IF t # <<>> /\ Head(t) = "+" THEN PyIntUnsigned(Tail(t))
    ELSE PyIntUnsigned(t)

\* int(text, 0): surrounding whitespace, a sign, a base prefix.
PyIntBase0(text) == PyIntSigned(Strip(text))

\* _human_to_offset without the offset form of an address.
OffsetOfHumanOnly(base, address_int) == address_int - base

\* _human_to_offset, once the address is an int.
OffsetOf(base, address_int) ==
    IF address_int - base >= 0 THEN address_int - base
    ELSE IF address_int >= 0 THEN address_int
    ELSE address_int - base

AddressInt(address) ==
    IF address.kind = "str" THEN PyIntBase0(address.val) ELSE Ok(address.val)

OffsetResult(base, parsed) ==
    IF parsed.ok THEN Ok(OffsetOf(base, parsed.val)) ELSE parsed

\* _human_to_offset
HumanToOffset(register_type, address) ==
    OffsetResult(REGISTER_BASES[register_type], AddressInt(address))

\* Further Python values: bool and float (a float is kept in tenths).
PyBool(b) == [kind |-> "bool", val |-> IF b THEN 1 ELSE 0]
PyFloat(tenths) == [kind |-> "float", val |-> tenths]

RECURSIVE RemoveChar(_, _)
RemoveChar(s, c) ==
    IF s = <<>> THEN <<>>
    ELSE IF Head(s) = c THEN RemoveChar(Tail(s), c)
    ELSE <<Head(s)>> \o RemoveChar(Tail(s), c)
ReplaceChar(s, c, d) == [i \in 1..Len(s) |-> IF s[i] = c THEN d ELSE s[i]]
Contains(s, c) == \E i \in 1..Len(s) : s[i] = c
IsDecDigits(s) == \A i \in 1..Len(s) : DigitVal(s[i]) < 10 /\ Lower(s[i]) = s[i]

RECURSIVE Pow10(_)
Pow10(n) == IF n <= 0 THEN 1 ELSE 10 * Pow10(n - 1)
LowerSeq(s) == [i \in 1..Len(s) |-> Lower(s[i])]
HasPrefix(s, p) == Len(s) >= Len(p) /\ SubSeq(s, 1, Len(p)) = p

\* Decimal(text): surrounding whitespace stripped, underscores removed, case
\* ignored; [sign] then digits [. digits] [e [sign] digits] with a digit
\* before the exponent, or inf, infinity, nan digits, snan digits; anything
\* else is InvalidOperation. A finite value is kept as its integer part and
\* "is integral".
DecInvalid == [ok |-> FALSE, kind |-> "invalid", val |-> 0, integral |-> FALSE]
DecSpecial(kind) == [ok |-> TRUE, kind |-> kind, val |-> 0, integral |-> FALSE]
\* The finite value coefficient / 10^scale (int() truncates towards zero).
DecimalFinite(neg, coefficient, scale) ==
    [ok |-> TRUE, kind |-> "finite",
     val |-> IF scale <= 0
             THEN (IF neg THEN 0 - coefficient ELSE coefficient) * Pow10(0 - scale)
             ELSE IF neg THEN 0 - (coefficient \div Pow10(scale))
             ELSE coefficient \div Pow10(scale),
     integral |-> scale <= 0 \/ coefficient % Pow10(scale) = 0]

\* The exponent part, the text after "e" (none: 0).
DecimalExp(e) ==
    IF e = <<>> THEN Raise("InvalidOperation")
    ELSE IF Head(e) \in {"+", "-"}
    THEN IF Tail(e) # <<>> /\ IsDecDigits(Tail(e))
         THEN Ok((IF Head(e) = "-" THEN -1 ELSE 1) * DigitsValue(Tail(e), 10, 0))
         ELSE Raise("InvalidOperation")
    ELSE IF IsDecDigits(e) THEN Ok(DigitsValue(e, 10, 0))
    ELSE Raise("InvalidOperation")

DecimalParts(neg, ip, fp, exp) ==
    IF (ip = <<>> /\ fp = <<>>) \/ ~IsDecDigits(ip) \/ ~IsDecDigits(fp) \/ ~exp.ok
    THEN DecInvalid
    ELSE DecimalFinite(neg, DigitsValue(ip \o fp, 10, 0), Len(fp) - exp.val)

FirstChar(u, c) ==
    IF Contains(u, c)
    THEN CHOOSE i \in 1..Len(u) : u[i] = c /\ \A j \in 1..(i - 1) : u[j] # c
    ELSE Len(u) + 1
FirstDot(u) == FirstChar(u, ".")

DecimalSplit(neg, m, dot, exp) ==
    DecimalParts(neg, SubSeq(m, 1, dot - 1), SubSeq(m, dot + 1, Len(m)), exp)

DecimalNumber(neg, u, e) ==
    DecimalSplit(neg, SubSeq(u, 1, e - 1), FirstDot(SubSeq(u, 1, e - 1)),
                 IF e > Len(u) THEN Ok(0) ELSE DecimalExp(SubSeq(u, e + 1, Len(u))))

DecimalUnsigned(neg, u) ==
    IF u \in {<<"i", "n", "f">>, <<"i", "n", "f", "i", "n", "i", "t", "y">>}
    THEN DecSpecial("inf")
    ELSE IF HasPrefix(u, <<"n", "a", "n">>) /\ IsDecDigits(SubSeq(u, 4, Len(u)))
    THEN DecSpecial("nan")
    ELSE IF HasPrefix(u, <<"s", "n", "a", "n">>) /\ IsDecDigits(SubSeq(u, 5, Len(u)))
    THEN DecSpecial("snan")
    ELSE DecimalNumber(neg, u, FirstChar(u, "e"))

DecimalSigned(t) ==
    IF t # <<>> /\ Head(t) \in {"+", "-"}
    THEN DecimalUnsigned(Head(t) = "-", Tail(t))
    ELSE DecimalUnsigned(FALSE, t)

PyDecimal(text) == DecimalSigned(LowerSeq(RemoveChar(Strip(text), "_")))

\* parse_register_value, the except branch: the decimal comma and the
\* thousands separators are normalised only when the text holds a comma.
Normalised(text) ==
    IF Contains(text, ",") THEN ReplaceChar(RemoveChar(text, "."), ",", ".") ELSE text

\* The comparison with to_integral_value() and int(decimal_value): a
\* signalling NaN raises InvalidOperation, a NaN differs from itself, an
\* infinity equals itself and has no int.
DecimalToInt(decimal_value) ==
    IF ~decimal_value.ok THEN Raise("ValueError")
    ELSE IF decimal_value.kind = "snan" THEN Raise("InvalidOperation")
    ELSE IF decimal_value.kind = "nan" THEN Raise("ValueError")
    ELSE IF decimal_value.kind = "inf" THEN Raise("OverflowError")
    ELSE IF ~decimal_value.integral THEN Raise("ValueError")
    ELSE Ok(decimal_value.val)

IntOrDecimal(text, asInt) ==
    IF asInt.ok THEN asInt ELSE DecimalToInt(PyDecimal(Normalised(text)))

ParseText(text) ==
    IF text = <<>> THEN Raise("ValueError") ELSE IntOrDecimal(text, PyIntBase0(text))

\* parse_register_value
ParseRegisterValue(value) ==
    IF value.kind = "bool" THEN Ok(value.val)
    ELSE IF value.kind = "int" THEN Ok(value.val)
    ELSE IF value.kind = "float"
         THEN IF value.val % 10 # 0 THEN Raise("ValueError")
              ELSE Ok(IF value.val >= 0 THEN value.val \div 10 ELSE 0 - ((0 - value.val) \div 10))
    ELSE ParseText(Strip(value.val))

\* A mapping of addresses to raw values is an insertion-ordered dict: a
\* sequence of entries [k |-> address, v |-> raw value] with distinct keys.
Entry(k, v) == [k |-> k, v |-> v]

MaxOf(S) == CHOOSE m \in S : \A x \in S : x <= m

BlockOk(data) == [ok |-> TRUE, data |-> data, err |-> "None"]
BlockErr(e) == [ok |-> FALSE, data |-> <<>>, err |-> e]

\* A faulty loop body: a cell that holds a value already keeps it.
PutValueOnce(data, offset, parsed) ==
    IF offset < 0 THEN BlockOk(data)
    ELSE IF ~parsed.ok THEN BlockErr(parsed.err)
    ELSE IF data[offset + 1] # 0 THEN BlockOk(data)
    ELSE BlockOk([data EXCEPT ![offset + 1] = parsed.val])

\* RegisterInitialisation.to_block, the loop body: data[offset] = parse_register_value(value)
PutValue(data, offset, parsed) ==
    IF offset < 0 THEN BlockOk(data)
    ELSE IF ~parsed.ok THEN BlockErr(parsed.err)
    ELSE BlockOk([data EXCEPT ![offset + 1] = parsed.val])

\* RegisterInitialisation.to_block, the loop over self.values.items()
RECURSIVE FillBlock(_, _, _)
FillBlock(register_type, values, block) ==
    IF values = <<>> \/ ~block.ok THEN block
    ELSE FillBlock(register_type, Tail(values),
                   PutValue(block.data, HumanToOffset(register_type, Head(values).k).val,
                            ParseRegisterValue(Head(values).v)))

ZeroBlock(size) == BlockOk([i \in 1..(IF size > 0 THEN size ELSE 0) |-> 0])

ToBlockOf(register_type, values, offsets) ==
    IF \E i \in 1..Len(offsets) : ~offsets[i].ok THEN BlockErr("ValueError")
    ELSE IF offsets = <<>> THEN BlockOk(<<0>>)
    ELSE FillBlock(register_type, values,
                   ZeroBlock(MaxOf({offsets[i].val : i \in 1..Len(offsets)}) + 1))

\* RegisterInitialisation.to_block: the data list of the block, or the error
\* raised while building it.
ToBlock(register_type, values) ==
    ToBlockOf(register_type, values,
              [i \in 1..Len(values) |-> HumanToOffset(register_type, values[i].k)])

ServerContext(blocks, unit_id) ==
    IF \A t \in RegTypes : blocks[t].ok
    THEN [ok |-> TRUE, unit_id |-> unit_id, hr |-> blocks["holding"].data,
          ir |-> blocks["input"].data, co |-> blocks["coils"].data,
          di |-> blocks["discrete"].data]
    ELSE [ok |-> FALSE, unit_id |-> unit_id, hr |-> <<>>, ir |-> <<>>, co |-> <<>>, di |-> <<>>]

\* build_datastore: initials maps a register type to a mapping (a missing
\* type reads as the empty mapping); the context serves unit_id.
BuildDatastore(initials, unit_id) ==
    ServerContext([t \in RegTypes |-> ToBlock(t, initials[t])], unit_id)

(***************************************************************************)
(* servers.py: the state                                                   *)
(***************************************************************************)
VARIABLES
    state,              \* BaseServer._state: [host, port, unit_id, initials]
    loop,               \* BaseServer._loop: id of an event loop, or NoRef
    thread,             \* BaseServer._thread: id of a thread, or NoRef
    server,             \* BaseServer._server: id of a listener, or NoRef
    shutdown_event,     \* BaseServer._shutdown_event: id of an asyncio.Event, or NoRef
    startup_event,      \* BaseServer._startup_event (threading.Event): is it set
    running,            \* BaseServer._running (threading.Event): is it set
    startup_exception,  \* BaseServer._startup_exception
    top,                \* heap: the initials mappings (register type -> inner mapping)
    inner,              \* heap: the inner mappings (address -> raw value)
    th,                 \* the background threads: position and locals
    loopSt,             \* the event loop created by thread t
    pending,            \* callbacks scheduled on loop t by call_soon_threadsafe
    evSet,              \* the asyncio.Event created by thread t: is it set
    lsn,                \* the LoggingAsyncModbusTcpServer created by thread t
    caller,             \* the UI thread: where it is blocked, if it is
    last,               \* outcome of the call the UI thread completed last
    nmut                \* mutations of initials mappings made so far

vars == <<state, loop, thread, server, shutdown_event, startup_event, running,
          startup_exception, top, inner, th, loopSt, pending, evSet, lsn,
          caller, last, nmut>>

instanceVars == <<state, loop, thread, server, shutdown_event, startup_event,
                  running, startup_exception>>
heapVars == <<top, inner, nmut>>
threadVars == <<th, loopSt, pending, evSet, lsn>>

NoExc == [kind |-> "None", hint |-> FALSE, by |-> NoRef]
Exc(kind, t) == [kind |-> kind, hint |-> FALSE, by |-> t]

NoCtx == [ok |-> FALSE, unit_id |-> 0, hr |-> <<>>, ir |-> <<>>, co |-> <<>>, di |-> <<>>]
NoThread == [pc |-> "none", srv |-> "battery", waitEv |-> NoRef, exc |-> NoExc, ctx |-> NoCtx]
NoListener == [st |-> "none", host |-> "", port |-> 0, ctx |-> NoCtx]
Idle == [pc |-> "idle", srv |-> "battery"]
\* The most recent call of the UI thread with its result (pending while the
\* call waits), and how far it and the calls before it got through the sequence stop(), configure()..., start() on one
\* instance: seq is 1 after stop(), 2 after configure() calls that follow it,
\* 3 after the start() that follows those, and 0 otherwise.
NoCall == [op |-> "none", srv |-> "battery", result |-> "none", seq |-> 0]
SeqAfter(op, s) ==
    IF op = "stop" THEN 1
    ELSE IF last.srv # s THEN 0
    ELSE IF op = "configure" /\ last.seq \in {1, 2} THEN 2
    ELSE IF op = "start" /\ last.seq = 2 THEN 3
    ELSE 0
Call(op, s, result) == [op |-> op, srv |-> s, result |-> result, seq |-> SeqAfter(op, s)]

\* ServerState
ServerState(host, port, unit_id, initials) ==
    [host |-> host, port |-> port, unit_id |-> unit_id, initials |-> initials]

EmptyInitials == [t \in RegTypes |-> <<>>]
\* Initial register mappings the callers of the model hand in.
IniA == [EmptyInitials EXCEPT !["holding"] = <<Entry(PyStr(<<"4", "0", "0", "0", "1">>), PyInt(1))>>]
IniB == [EmptyInitials EXCEPT !["holding"] = <<Entry(PyInt(40002), PyInt(7))>>,
                              !["coils"] = <<Entry(PyInt(1), PyInt(1))>>]
IniBad == [EmptyInitials EXCEPT !["holding"] = <<Entry(PyInt(40001), PyStr(<<>>))>>]

\* The mapping an initials reference denotes: a register type missing at the
\* top level reads as the empty mapping (initials.get(type, {})).
Content(ref) ==
    [t \in RegTypes |-> IF top[ref][t] = "none" THEN <<>> ELSE inner[top[ref][t]][t]]

\* The mapping a reference would denote in the heap <<tp, inn>>.
ContentIn(tp, inn, ref) ==
    [t \in RegTypes |-> IF tp[ref][t] = "none" THEN <<>> ELSE inn[tp[ref][t]][t]]

\* The initials mapping each holder refers to: the configuration's
\* "initial_registers", and ServerState.initials of the two servers.
Holder(o) == IF o = "cfg" THEN "cfg" ELSE state[o].initials

\* Arguments of configure() drawn by the model: another address with other
\* registers, a privileged port, and a register value that does not parse.
ConfigArgs ==
    { [host |-> "0.0.0.0", port |-> 5021, unit_id |-> 2, initials |-> IniB],
      [host |-> "127.0.0.1", port |-> 1, unit_id |-> 1, initials |-> IniA],
      [host |-> "127.0.0.1", port |-> 5020, unit_id |-> 1, initials |-> IniBad] }

\* The servers after ServerManager.__init__ (MainWindow.__init__): each
\* holds its own deep copy of the configuration's initial registers.
InitServers ==
    /\ state = [s \in Servers |->
                  ServerState("127.0.0.1", IF s = "battery" THEN 5020 ELSE 502, 1, s)]
    /\ loop = [s \in Servers |-> NoRef]
    /\ thread = [s \in Servers |-> NoRef]
    /\ server = [s \in Servers |-> NoRef]
    /\ shutdown_event = [s \in Servers |-> NoRef]
    /\ startup_event = [s \in Servers |-> FALSE]
    /\ running = [s \in Servers |-> FALSE]
    /\ startup_exception = [s \in Servers |-> NoExc]
    /\ top = [o \in Owners |-> [t \in RegTypes |-> o]]
    /\ inner = [o \in Owners |-> IniA]
    /\ th = [t \in TIDs |-> NoThread]
    /\ loopSt = [t \in TIDs |-> "none"]
    /\ pending = [t \in TIDs |-> {}]
    /\ evSet = [t \in TIDs |-> FALSE]
    /\ lsn = [t \in TIDs |-> NoListener]
    /\ caller = Idle
    /\ nmut = 0

\* The state after MainWindow.__init__: the UI thread has made no call.
Init == InitServers /\ last = NoCall

(***************************************************************************)
(* servers.py: the calls of the UI thread                                  *)
(***************************************************************************)
\* BaseServer.is_running
is_running(s) == running[s]

\* A faulty configure(): it also takes the instance out of the running state.
configure_stopping(s, host, port, unit_id, initials) ==
    /\ caller.pc = "idle"
    /\ state' = [state EXCEPT ![s] = ServerState(host, port, unit_id, s)]
    /\ top' = [top EXCEPT ![s] = [t \in RegTypes |-> s]]
    /\ inner' = [inner EXCEPT ![s] = initials]
    /\ running' = [running EXCEPT ![s] = FALSE]
    /\ last' = Call("configure", s, "returned")
    /\ UNCHANGED <<loop, thread, server, shutdown_event, startup_event,
                   startup_exception, nmut, caller>>
    /\ UNCHANGED threadVars

\* BaseServer.configure with a mapping object the caller hands over.
configure(s, host, port, unit_id, initials) ==
    /\ caller.pc = "idle"
    /\ state' = [state EXCEPT ![s] = ServerState(host, port, unit_id, s)]
    /\ top' = [top EXCEPT ![s] = [t \in RegTypes |-> s]]
    /\ inner' = [inner EXCEPT ![s] = initials]
    /\ last' = Call("configure", s, "returned")
    /\ UNCHANGED <<loop, thread, server, shutdown_event, startup_event, running,
                   startup_exception, nmut, caller>>
    /\ UNCHANGED threadVars

\* A faulty copy, dict(initials): a new top-level mapping that refers to the
\* inner mappings of the original.
shallow_copy(ref, o) == [ref |-> o, top |-> top[ref], inner |-> inner[o]]

\* copy.deepcopy(initials) for the mapping ref denotes: a new top-level mapping
\* and new inner mappings (those of owner o in the model), equal to the old.
deepcopy(ref, o) ==
    [ref |-> o,
     top |-> [t \in RegTypes |-> IF top[ref][t] = "none" THEN "none" ELSE o],
     inner |-> Content(ref)]

\* Configurations handed to apply_configuration ("initial_registers" is the
\* mapping of owner cfg in the heap).
CfgDefault ==
    [battery_server |-> [host |-> "127.0.0.1", port |-> 5020, unit_id |-> 1],
     master_server |-> [host |-> "127.0.0.1", port |-> 502, unit_id |-> 1]]
CfgOther ==
    [battery_server |-> [host |-> "0.0.0.0", port |-> 5021, unit_id |-> 2],
     master_server |-> [host |-> "0.0.0.0", port |-> 5022, unit_id |-> 2]]
Configs == {CfgDefault, CfgOther}
Section(config, s) == IF s = "battery" THEN config.battery_server ELSE config.master_server

\* ServerManager.apply_configuration: configure() on both servers, each with
\* its own deep copy of config["initial_registers"]; int() of the int ports
\* and unit ids is the same int.
apply_configuration(config) ==
    /\ caller.pc = "idle"
    /\ LET copy == [s \in Servers |-> deepcopy("cfg", s)]
       IN  /\ state' = [s \in Servers |->
                          ServerState(Section(config, s).host, Section(config, s).port,
                                      Section(config, s).unit_id, copy[s].ref)]
           /\ top' = [o \in Owners |-> IF o \in Servers /\ copy[o].ref = o
                                        THEN copy[o].top ELSE top[o]]
           /\ inner' = [o \in Owners |-> IF o \in Servers /\ copy[o].ref = o
                                          THEN copy[o].inner ELSE inner[o]]
    /\ last' = Call("apply_configuration", "master", "returned")
    /\ UNCHANGED <<loop, thread, server, shutdown_event, startup_event, running,
                   startup_exception, nmut, caller>>
    /\ UNCHANGED threadVars

\* Addresses and values the callers of the model write into a mapping.
MutKeys == {PyInt(1), PyStr(<<"4", "0", "0", "0", "1">>)}
MutValues == {PyInt(5), PyInt(6)}

\* dict.__setitem__: the value of an existing key is replaced in place, a new
\* key goes to the end.
SetItem(m, k, v) ==
    IF \E i \in 1..Len(m) : m[i].k = k
    THEN [i \in 1..Len(m) |-> IF m[i].k = k THEN Entry(k, v) ELSE m[i]]
    ELSE Append(m, Entry(k, v))

\* A caller mutates the mapping holder o refers to, one level down:
\* initials[t][k] = v
set_value(o, t, k, v) ==
    /\ caller.pc = "idle"
    /\ nmut < MaxMutations
    /\ top[Holder(o)][t] # "none"
    /\ LET owner == top[Holder(o)][t]
       IN  inner' = [inner EXCEPT ![owner][t] = SetItem(@, k, v)]
    /\ nmut' = nmut + 1
    /\ UNCHANGED <<top, caller, last>>
    /\ UNCHANGED instanceVars
    /\ UNCHANGED threadVars

\* A caller mutates the mapping holder o refers to at the top level:
\* initials[t] = {} (the new empty mapping takes the place, in the model, of
\* o's own inner mapping, which nothing else may refer to).
replace_type(o, t) ==
    /\ caller.pc = "idle"
    /\ nmut < MaxMutations
    /\ \A p \in Owners \ {Holder(o)} : top[p][t] # Holder(o)
    /\ top' = [top EXCEPT ![Holder(o)][t] = Holder(o)]
    /\ inner' = [inner EXCEPT ![Holder(o)][t] = <<>>]
    /\ nmut' = nmut + 1
    /\ UNCHANGED <<caller, last>>
    /\ UNCHANGED instanceVars
    /\ UNCHANGED threadVars

\* A caller mutates the mapping holder o refers to at the top level:
\* del initials[t]
delete_type(o, t) ==
    /\ caller.pc = "idle"
    /\ nmut < MaxMutations
    /\ top[Holder(o)][t] # "none"
    /\ top' = [top EXCEPT ![Holder(o)][t] = "none"]
    /\ nmut' = nmut + 1
    /\ UNCHANGED <<inner, caller, last>>
    /\ UNCHANGED instanceVars
    /\ UNCHANGED threadVars

\* A thread object that can stand for a new thread of server s: it never ran
\* or has finished, its listener is not bound, and nothing but the fields of s
\* (which the new thread overwrites before anyone reads them) refers to it.
Reusable(t, s) ==
    /\ th[t].pc \in {"none", "done"}
    /\ lsn[t].st # "bound"
    /\ \A u \in TIDs : ~(th[u].pc = "wait" /\ th[u].waitEv = t) /\ t \notin pending[u]
    /\ \A o \in Servers \ {s} :
          thread[o] # t /\ loop[o] # t /\ server[o] # t /\ shutdown_event[o] # t
NewThread(s) == CHOOSE t \in TIDs : Reusable(t, s) /\ \A u \in TIDs : Reusable(u, s) => t <= u

\* BaseServer.start up to the wait on the handshake: returns at once when the
\* instance is running, else clears the handshake and spawns the thread.
start(s) ==
    /\ caller.pc = "idle"
    /\ IF is_running(s)
       THEN /\ last' = Call("start", s, "noop")
            /\ UNCHANGED <<startup_event, startup_exception, thread, th, lsn, caller>>
       ELSE /\ \E t \in TIDs : Reusable(t, s)
            /\ startup_event' = [startup_event EXCEPT ![s] = FALSE]
            /\ startup_exception' = [startup_exception EXCEPT ![s] = NoExc]
            /\ thread' = [thread EXCEPT ![s] = NewThread(s)]
            /\ th' = [th EXCEPT ![NewThread(s)] = [NoThread EXCEPT !.pc = "r1", !.srv = s]]
            /\ lsn' = [lsn EXCEPT ![NewThread(s)] = NoListener]
            /\ caller' = [pc |-> "start_wait", srv |-> s]
            /\ last' = Call("start", s, "pending")
    /\ UNCHANGED <<state, loop, server, shutdown_event, running, loopSt, pending, evSet>>
    /\ UNCHANGED heapVars

\* BaseServer.start after the wait: raises self._startup_exception, if any.
start_wakes(s) ==
    /\ caller = [pc |-> "start_wait", srv |-> s]
    /\ startup_event[s]
    /\ caller' = Idle
    /\ last' = [last EXCEPT !.result = IF startup_exception[s].kind # "None"
                                        THEN "raised" ELSE "returned"]
    /\ UNCHANGED instanceVars
    /\ UNCHANGED heapVars
    /\ UNCHANGED threadVars

\* A faulty stop(): without the is_running() test.
stop_unguarded(s) ==
    /\ caller.pc = "idle"
    /\ pending' = IF loop[s] # NoRef /\ shutdown_event[s] # NoRef /\ loopSt[loop[s]] # "closed"
                  THEN [pending EXCEPT ![loop[s]] = @ \cup {shutdown_event[s]}]
                  ELSE pending
    /\ IF thread[s] # NoRef
       THEN /\ caller' = [pc |-> "stop_join", srv |-> s]
            /\ last' = Call("stop", s, "pending")
            /\ UNCHANGED running
       ELSE /\ running' = [running EXCEPT ![s] = FALSE]
            /\ last' = Call("stop", s, "returned")
            /\ UNCHANGED caller
    /\ UNCHANGED <<state, loop, thread, server, shutdown_event, startup_event,
                   startup_exception, th, loopSt, evSet, lsn>>
    /\ UNCHANGED heapVars

\* BaseServer.stop up to the join: no-op when not running; else schedules
\* shutdown_event.set on the loop (call_soon_threadsafe raises on a closed loop).
stop(s) ==
    /\ caller.pc = "idle"
    /\ IF ~is_running(s)
       THEN /\ last' = Call("stop", s, "noop")
            /\ UNCHANGED <<pending, caller, running>>
       ELSE IF loop[s] # NoRef /\ shutdown_event[s] # NoRef /\ loopSt[loop[s]] = "closed"
       THEN /\ last' = Call("stop", s, "raised")
            /\ UNCHANGED <<pending, caller, running>>
       ELSE /\ pending' = IF loop[s] # NoRef /\ shutdown_event[s] # NoRef
                          THEN [pending EXCEPT ![loop[s]] = @ \cup {shutdown_event[s]}]
                          ELSE pending
            /\ IF thread[s] # NoRef
               THEN /\ caller' = [pc |-> "stop_join", srv |-> s]
                    /\ last' = Call("stop", s, "pending")
                    /\ UNCHANGED running
               ELSE /\ running' = [running EXCEPT ![s] = FALSE]
                    /\ last' = Call("stop", s, "returned")
                    /\ UNCHANGED caller
    /\ UNCHANGED <<state, loop, thread, server, shutdown_event, startup_event,
                   startup_exception, th, loopSt, evSet, lsn>>
    /\ UNCHANGED heapVars

\* A faulty stop(): a join without timeout, which returns only when the
\* thread has finished.
stop_joined_forever(s) ==
    /\ caller = [pc |-> "stop_join", srv |-> s]
    /\ th[thread[s]].pc = "done"
    /\ running' = [running EXCEPT ![s] = FALSE]
    /\ caller' = Idle
    /\ last' = [last EXCEPT !.result = "returned"]
    /\ UNCHANGED <<state, loop, thread, server, shutdown_event, startup_event,
                   startup_exception>>
    /\ UNCHANGED heapVars
    /\ UNCHANGED threadVars

\* BaseServer.stop after the join: the join returns when the thread has
\* finished, or after 5 seconds whatever the thread does (so this step is
\* possible wherever the thread is); then _running.clear().
stop_joined(s) ==
    /\ caller = [pc |-> "stop_join", srv |-> s]
    /\ running' = [running EXCEPT ![s] = FALSE]
    /\ caller' = Idle
    /\ last' = [last EXCEPT !.result = "returned"]
    /\ UNCHANGED <<state, loop, thread, server, shutdown_event, startup_event,
                   startup_exception>>
    /\ UNCHANGED heapVars
    /\ UNCHANGED threadVars

(***************************************************************************)
(* servers.py: the background thread (_run_thread, _start_async)           *)
(***************************************************************************)
At(t, pc) == th[t].pc = pc
Goto(t, pc) == [th EXCEPT ![t].pc = pc]
RaiseIn(t, kind) == [th EXCEPT ![t].pc = "h1", ![t].exc = Exc(kind, t)]

\* asyncio.Event.set() for the events of E: the coroutines waiting on them resume.
Woken(thf, E) ==
    [u \in TIDs |-> IF thf[u].pc = "wait" /\ thf[u].waitEv \in E
                    THEN [thf[u] EXCEPT !.pc = "f1"] ELSE thf[u]]
EventsSet(E) == [e \in TIDs |-> evSet[e] \/ e \in E]

\* _run_thread: self._loop = asyncio.new_event_loop(); set_event_loop
run_new_loop(t) ==
    /\ At(t, "r1")
    /\ loop' = [loop EXCEPT ![th[t].srv] = t]
    /\ loopSt' = [loopSt EXCEPT ![t] = "created"]
    /\ pending' = [pending EXCEPT ![t] = {}]
    /\ th' = Goto(t, "r2")
    /\ UNCHANGED <<state, thread, server, shutdown_event, startup_event, running,
                   startup_exception, evSet, lsn, caller, last>>
    /\ UNCHANGED heapVars

\* _run_thread: self._shutdown_event = asyncio.Event()
run_new_event(t) ==
    /\ At(t, "r2")
    /\ shutdown_event' = [shutdown_event EXCEPT ![th[t].srv] = t]
    /\ evSet' = [evSet EXCEPT ![t] = FALSE]
    /\ th' = Goto(t, "r3")
    /\ UNCHANGED <<state, loop, thread, server, startup_event, running,
                   startup_exception, loopSt, pending, lsn, caller, last>>
    /\ UNCHANGED heapVars

\* _run_thread: self._loop.run_until_complete(...) raises RuntimeError on a
\* loop that is closed or already running, and the finally clause follows.
run_until_complete(t) ==
    /\ At(t, "r3")
    /\ LET l == loop[th[t].srv]
       IN  IF loopSt[l] = "created"
           THEN /\ loopSt' = [loopSt EXCEPT ![l] = "running"]
                /\ th' = Goto(t, "a1")
           ELSE /\ th' = Goto(t, "t1")
                /\ UNCHANGED loopSt
    /\ UNCHANGED <<pending, evSet, lsn, caller, last>>
    /\ UNCHANGED instanceVars
    /\ UNCHANGED heapVars

\* _start_async: context = build_datastore(self._state.initials, self._state.unit_id)
async_build_datastore(t) ==
    /\ At(t, "a1")
    /\ LET st == state[th[t].srv]
           context == BuildDatastore(Content(st.initials), st.unit_id)
       IN  th' = IF context.ok
                 THEN [th EXCEPT ![t].pc = "a2", ![t].ctx = context]
                 ELSE RaiseIn(t, "ValueError")
    /\ UNCHANGED <<loopSt, pending, evSet, lsn, caller, last>>
    /\ UNCHANGED instanceVars
    /\ UNCHANGED heapVars

\* A faulty _start_async: the running flag is set as soon as the server
\* object exists, before the bind.
new_server_running(t) ==
    /\ th[t].pc = "a2"
    /\ \/ /\ lsn' = [lsn EXCEPT ![t] = [st |-> "built", host |-> state[th[t].srv].host,
                                        port |-> state[th[t].srv].port, ctx |-> th[t].ctx]]
          /\ server' = [server EXCEPT ![th[t].srv] = t]
          /\ running' = [running EXCEPT ![th[t].srv] = TRUE]
          /\ th' = [th EXCEPT ![t].pc = "a3"]
       \/ /\ th' = [th EXCEPT ![t].pc = "h1", ![t].exc = Exc("ModbusException", t)]
          /\ UNCHANGED <<lsn, server, running>>
    /\ UNCHANGED <<state, loop, thread, shutdown_event, startup_event,
                   startup_exception, loopSt, pending, evSet, caller, last>>
    /\ UNCHANGED heapVars

\* A faulty _start_async: the server is built for the address the instance
\* was constructed with, not for the current ServerState.
new_server_first_address(t) ==
    /\ th[t].pc = "a2"
    /\ \/ /\ lsn' = [lsn EXCEPT ![t] = [st |-> "built", host |-> "127.0.0.1",
                                        port |-> 5020, ctx |-> th[t].ctx]]
          /\ server' = [server EXCEPT ![th[t].srv] = t]
          /\ th' = [th EXCEPT ![t].pc = "a3"]
       \/ /\ th' = [th EXCEPT ![t].pc = "h1", ![t].exc = Exc("ModbusException", t)]
          /\ UNCHANGED <<lsn, server>>
    /\ UNCHANGED <<state, loop, thread, shutdown_event, startup_event, running,
                   startup_exception, loopSt, pending, evSet, caller, last>>
    /\ UNCHANGED heapVars

\* _start_async: self._server = LoggingAsyncModbusTcpServer(context=context,
\* address=(self._state.host, self._state.port)); the library may refuse.
async_new_server(t) ==
    /\ At(t, "a2")
    /\ \/ /\ lsn' = [lsn EXCEPT ![t] = [st |-> "built", host |-> state[th[t].srv].host,
                                        port |-> state[th[t].srv].port, ctx |-> th[t].ctx]]
          /\ server' = [server EXCEPT ![th[t].srv] = t]
          /\ th' = Goto(t, "a3")
       \/ /\ th' = RaiseIn(t, "ModbusException")
          /\ UNCHANGED <<lsn, server>>
    /\ UNCHANGED <<state, loop, thread, shutdown_event, startup_event, running,
                   startup_exception, loopSt, pending, evSet, caller, last>>
    /\ UNCHANGED heapVars

\* Ports below 1024 need a privilege the process does not have.
Privileged(port) == port < 1024
\* A port another listener of the process is bound to.
InUse(port) == \E u \in TIDs : lsn[u].st = "bound" /\ lsn[u].port = port
\* What binding a listener to port can end in.
BindOutcomes(port) ==
    IF Privileged(port) THEN {"PermissionError"}
    ELSE IF InUse(port) THEN {"OSError"}
    ELSE {"ok", "OSError"}

\* _start_async: await self._server.serve_forever(background=True)
async_serve(t) ==
    /\ At(t, "a3")
    /\ LET sv == server[th[t].srv]
       IN  IF sv = NoRef
           THEN /\ th' = RaiseIn(t, "AttributeError")
                /\ UNCHANGED lsn
           ELSE \E out \in BindOutcomes(lsn[sv].port) :
                   IF out = "ok"
                   THEN /\ lsn' = [lsn EXCEPT ![sv].st = "bound"]
                        /\ th' = Goto(t, "a4")
                   ELSE /\ th' = RaiseIn(t, out)
                        /\ UNCHANGED lsn
    /\ UNCHANGED <<loopSt, pending, evSet, caller, last>>
    /\ UNCHANGED instanceVars
    /\ UNCHANGED heapVars

\* _start_async: self._running.set()
async_set_running(t) ==
    /\ At(t, "a4")
    /\ running' = [running EXCEPT ![th[t].srv] = TRUE]
    /\ th' = Goto(t, "a5")
    /\ UNCHANGED <<state, loop, thread, server, shutdown_event, startup_event,
                   startup_exception, loopSt, pending, evSet, lsn, caller, last>>
    /\ UNCHANGED heapVars

\* _start_async: self._startup_event.set()
async_set_startup(t) ==
    /\ At(t, "a5")
    /\ startup_event' = [startup_event EXCEPT ![th[t].srv] = TRUE]
    /\ th' = Goto(t, "a6")
    /\ UNCHANGED <<state, loop, thread, server, shutdown_event, running,
                   startup_exception, loopSt, pending, evSet, lsn, caller, last>>
    /\ UNCHANGED heapVars

\* _start_async: if not self._shutdown_event: return
\*               await self._shutdown_event.wait()
async_wait_shutdown(t) ==
    /\ At(t, "a6")
    /\ LET e == shutdown_event[th[t].srv]
       IN  th' = IF e = NoRef \/ evSet[e]
                 THEN Goto(t, "f1")
                 ELSE [th EXCEPT ![t].pc = "wait", ![t].waitEv = e]
    /\ UNCHANGED <<loopSt, pending, evSet, lsn, caller, last>>
    /\ UNCHANGED instanceVars
    /\ UNCHANGED heapVars

\* The loop of thread t, idle in the await, runs the callbacks scheduled on it.
loop_callbacks(t) ==
    /\ At(t, "wait")
    /\ loopSt[t] = "running"
    /\ pending[t] # {}
    /\ evSet' = EventsSet(pending[t])
    /\ th' = Woken(th, pending[t])
    /\ pending' = [pending EXCEPT ![t] = {}]
    /\ UNCHANGED <<loopSt, lsn, caller, last>>
    /\ UNCHANGED instanceVars
    /\ UNCHANGED heapVars

\* Faulty except clauses: OSError handled before its subclass PermissionError,
\* so that every OSError is stored as it is.
CapturedAsRaised(exc) == exc

\* The except clauses of _start_async, in their order: what is stored for an
\* exception of class kind raised by thread t.
Captured(exc) ==
    IF exc.kind = "PermissionError"
    THEN [kind |-> "PermissionError", hint |-> TRUE, by |-> exc.by]
    ELSE exc

\* _start_async, an except clause: self._startup_exception = ...
except_store(t) ==
    /\ At(t, "h1")
    /\ startup_exception' = [startup_exception EXCEPT ![th[t].srv] = Captured(th[t].exc)]
    /\ th' = Goto(t, "h2")
    /\ UNCHANGED <<state, loop, thread, server, shutdown_event, startup_event, running,
                   loopSt, pending, evSet, lsn, caller, last>>
    /\ UNCHANGED heapVars

\* _start_async, an except clause: self._startup_event.set()
except_signal(t) ==
    /\ At(t, "h2")
    /\ startup_event' = [startup_event EXCEPT ![th[t].srv] = TRUE]
    /\ th' = Goto(t, "f1")
    /\ UNCHANGED <<state, loop, thread, server, shutdown_event, running,
                   startup_exception, loopSt, pending, evSet, lsn, caller, last>>
    /\ UNCHANGED heapVars

\* server.shutdown(): a bound listener is closed.
Shutdown(l) == IF l.st = "bound" THEN [l EXCEPT !.st = "closed"] ELSE l

\* _start_async, finally: if self._server: await self._server.shutdown()
finally_shutdown(t) ==
    /\ At(t, "f1")
    /\ LET sv == server[th[t].srv]
       IN  lsn' = IF sv = NoRef THEN lsn ELSE [lsn EXCEPT ![sv] = Shutdown(lsn[sv])]
    /\ th' = Goto(t, "f2")
    /\ UNCHANGED <<loopSt, pending, evSet, caller, last>>
    /\ UNCHANGED instanceVars
    /\ UNCHANGED heapVars

\* _start_async, finally: self._running.clear()
finally_clear_running(t) ==
    /\ At(t, "f2")
    /\ running' = [running EXCEPT ![th[t].srv] = FALSE]
    /\ th' = Goto(t, "f3")
    /\ UNCHANGED <<state, loop, thread, server, shutdown_event, startup_event,
                   startup_exception, loopSt, pending, evSet, lsn, caller, last>>
    /\ UNCHANGED heapVars

\* _start_async, finally: if self._shutdown_event: self._shutdown_event.clear()
finally_clear_event(t) ==
    /\ At(t, "f3")
    /\ LET e == shutdown_event[th[t].srv]
       IN  evSet' = IF e = NoRef THEN evSet ELSE [evSet EXCEPT ![e] = FALSE]
    /\ th' = Goto(t, "f4")
    /\ UNCHANGED <<loopSt, pending, lsn, caller, last>>
    /\ UNCHANGED instanceVars
    /\ UNCHANGED heapVars

\* _start_async, finally: self._server = None; the coroutine ends and
\* run_until_complete returns: the loop thread t ran stops.
finally_drop_server(t) ==
    /\ At(t, "f4")
    /\ server' = [server EXCEPT ![th[t].srv] = NoRef]
    /\ loopSt' = [loopSt EXCEPT ![t] = "stopped"]
    /\ th' = Goto(t, "t1")
    /\ UNCHANGED <<state, loop, thread, shutdown_event, startup_event, running,
                   startup_exception, pending, evSet, lsn, caller, last>>
    /\ UNCHANGED heapVars

\* The thread has finished: its locals are gone, and so is its listener
\* unless it is still bound.
Finished(thf, t) == [thf EXCEPT ![t] = [NoThread EXCEPT !.pc = "done", !.srv = thf[t].srv]]
Collected(t) == IF lsn[t].st = "bound" THEN lsn ELSE [lsn EXCEPT ![t] = NoListener]

\* _run_thread, finally: if self._loop: run_until_complete(shutdown_asyncgens())
\* and close(), on whatever loop self._loop names now; both raise RuntimeError
\* on a loop that is running or closed, which ends the thread.
run_teardown(t) ==
    /\ At(t, "t1")
    /\ LET l == loop[th[t].srv]
       IN  IF l # NoRef /\ loopSt[l] \in {"created", "stopped"}
           THEN /\ loopSt' = [loopSt EXCEPT ![l] = "closed"]
                /\ evSet' = EventsSet(pending[l])
                /\ pending' = [pending EXCEPT ![l] = {}]
                /\ th' = Finished(Woken(th, pending[l]), t)
           ELSE /\ th' = Finished(th, t)
                /\ UNCHANGED <<loopSt, evSet, pending>>
    /\ lsn' = Collected(t)
    /\ UNCHANGED <<caller, last>>
    /\ UNCHANGED instanceVars
    /\ UNCHANGED heapVars

(***************************************************************************)
(* The lifecycle of one instance                                           *)
(***************************************************************************)
Next ==
    \/ \E c \in ConfigArgs : configure("battery", c.host, c.port, c.unit_id, c.initials)
    \/ start("battery")
    \/ start_wakes("battery")
    \/ stop("battery")
    \/ stop_joined("battery")
    \/ \E t \in TIDs : run_new_loop(t)
    \/ \E t \in TIDs : run_new_event(t)
    \/ \E t \in TIDs : run_until_complete(t)
    \/ \E t \in TIDs : async_build_datastore(t)
    \/ \E t \in TIDs : async_new_server(t)
    \/ \E t \in TIDs : async_serve(t)
    \/ \E t \in TIDs : async_set_running(t)
    \/ \E t \in TIDs : async_set_startup(t)
    \/ \E t \in TIDs : async_wait_shutdown(t)
    \/ \E t \in TIDs : loop_callbacks(t)
    \/ \E t \in TIDs : except_store(t)
    \/ \E t \in TIDs : except_signal(t)
    \/ \E t \in TIDs : finally_shutdown(t)
    \/ \E t \in TIDs : finally_clear_running(t)
    \/ \E t \in TIDs : finally_clear_event(t)
    \/ \E t \in TIDs : finally_drop_server(t)
    \/ \E t \in TIDs : run_teardown(t)

Spec == Init /\ [][Next]_vars

(***************************************************************************)
(* The two servers under the ServerManager, reconfigured and started in    *)
(* any order, up to the first stop                                         *)
(***************************************************************************)
\* No stop() is called here, so no shutdown is ever scheduled on a loop.
NextMgr ==
    \/ \E s \in Servers, c \in Configs :
          configure(s, Section(c, s).host, Section(c, s).port, Section(c, s).unit_id, IniA)
    \/ \E c \in Configs : apply_configuration(c)
    \/ \E s \in Servers : start(s)
    \/ \E s \in Servers : start_wakes(s)
    \/ \E t \in TIDs : run_new_loop(t)
    \/ \E t \in TIDs : run_new_event(t)
    \/ \E t \in TIDs : run_until_complete(t)
    \/ \E t \in TIDs : async_build_datastore(t)
    \/ \E t \in TIDs : async_new_server(t)
    \/ \E t \in TIDs : async_serve(t)
    \/ \E t \in TIDs : async_set_running(t)
    \/ \E t \in TIDs : async_set_startup(t)
    \/ \E t \in TIDs : async_wait_shutdown(t)
    \/ \E t \in TIDs : except_store(t)
    \/ \E t \in TIDs : except_signal(t)
    \/ \E t \in TIDs : finally_shutdown(t)
    \/ \E t \in TIDs : finally_clear_running(t)
    \/ \E t \in TIDs : finally_clear_event(t)
    \/ \E t \in TIDs : finally_drop_server(t)
    \/ \E t \in TIDs : run_teardown(t)

SpecMgr == Init /\ [][NextMgr]_vars

(***************************************************************************)
(* The initials mappings: apply_configuration and the callers' mutations   *)
(***************************************************************************)
NextHeap ==
    \/ \E c \in Configs : apply_configuration(c)
    \/ \E o \in Owners, t \in RegTypes, k \in MutKeys, v \in MutValues : set_value(o, t, k, v)
    \/ \E o \in Owners, t \in RegTypes : replace_type(o, t)
    \/ \E o \in Owners, t \in RegTypes : delete_type(o, t)

SpecHeap == Init /\ [][NextHeap]_vars

(***************************************************************************)
(* Properties of the lifecycle (Spec)                                      *)
(***************************************************************************)
\* The call the UI thread completed last was op on s with this result, and
\* the UI thread is in no call now.
After(op, s, result) ==
    caller = Idle /\ last.op = op /\ last.srv = s /\ last.result = result

\* The listeners of instance s that are bound.
BoundListeners(s) == {t \in TIDs : th[t].srv = s /\ lsn[t].st = "bound"}

\* The failure kinds of a start the specification names.
FailureKinds == {"PermissionError", "OSError", "ModbusException"}

\* C1: start() on a not-running instance returns to its caller only after the
\* startup signal; when it returns normally, the listener its background
\* thread created is bound and is_running() is true at that moment; when the
\* datastore or the bind failed, it raises the exception its thread captured.
C1_StartHandshake ==
    [][\A s \in Servers : start_wakes(s) =>
          /\ startup_event[s]
          /\ IF startup_exception[s].kind = "None"
             THEN is_running(s) /\ lsn[thread[s]].st = "bound"
             ELSE startup_exception[s].by = thread[s]]_vars

\* C2: whatever start(), stop() and configure() calls were made on an
\* instance, at most one listener of that instance is bound.
C2_OneBoundListener == \A s \in Servers : Cardinality(BoundListeners(s)) <= 1

\* C3: start() called right after a start() on the same instance that
\* returned normally is a no-op: it spawns no thread, binds nothing, returns
\* without error, and is_running() is true afterwards.
C3_SecondStartNoop ==
    [][\A s \in Servers :
          start(s) /\ last.op = "start" /\ last.srv = s /\ last.result = "returned" =>
              /\ thread' = thread /\ th' = th /\ lsn' = lsn
              /\ caller' = Idle
              /\ last'.result = "noop"
              /\ running'[s]]_vars

\* C4: after start() has raised one of the three failure kinds, is_running()
\* is false, the listener of that attempt is not bound, and the exception
\* raised is the one the thread of that attempt raised.
C4_FailedStartStopped ==
    \A s \in Servers :
        After("start", s, "raised") /\ startup_exception[s].kind \in FailureKinds =>
            /\ ~is_running(s)
            /\ lsn[thread[s]].st # "bound"
            /\ startup_exception[s].by = thread[s]
            /\ th[thread[s]].pc # "done" =>
                   startup_exception[s] = Captured(th[thread[s]].exc)
C4_Witness ==
    /\ After("start", "battery", "raised")
    /\ startup_exception["battery"].kind = "OSError"
    /\ th[thread["battery"]].pc = "f1"

\* C5: a start() that fails for missing privilege raises PermissionError with
\* the hint to choose a port above 1024, never the generic OSError, and
\* is_running() is false afterwards; the hint goes with no other kind, and any
\* other failure is raised with the kind it was raised with in the thread.
C5_PermissionDistinct ==
    \A s \in Servers : After("start", s, "raised") =>
        LET e == startup_exception[s]
        IN  /\ e.hint <=> e.kind = "PermissionError"
            /\ Privileged(state[s].port) => e.kind # "OSError"
            /\ e.kind = "PermissionError" => Privileged(state[s].port) /\ ~is_running(s)
            /\ th[thread[s]].pc # "done" => e.kind = th[thread[s]].exc.kind
C5_Witness ==
    /\ After("start", "battery", "raised")
    /\ startup_exception["battery"].kind = "PermissionError"
    /\ startup_exception["battery"].hint
    /\ state["battery"].port = 1

\* C6: stop() on an instance that is not running does nothing: it does not
\* raise, schedules no shutdown, joins no thread, and leaves the running flag,
\* the ServerState and everything else of the instance as they were.
C6_StopNoop ==
    [][\A s \in Servers : stop(s) /\ ~is_running(s) =>
          /\ UNCHANGED <<instanceVars, threadVars, heapVars, caller>>
          /\ last'.op = "stop" /\ last'.result = "noop"]_vars
C6_Witness ==
    /\ After("stop", "battery", "noop")
    /\ thread["battery"] # NoRef
    /\ startup_exception["battery"].kind # "None"

\* C7: stop() on a running instance always returns, without raising and with
\* is_running() false: once the shutdown is scheduled, the return is possible
\* whether or not the background thread has finished.
C7_StopReturns ==
    \A s \in Servers :
        /\ caller = [pc |-> "stop_join", srv |-> s] => ENABLED stop_joined(s)
        /\ ~(last.op = "stop" /\ last.result = "raised")
        /\ After("stop", s, "returned") => ~is_running(s)
C7_Witness ==
    /\ After("stop", "battery", "returned")
    /\ th[thread["battery"]].pc = "wait"
    /\ lsn[thread["battery"]].st = "bound"

\* C9: after stop(), configure(host, port, unit_id, initials), start() on an
\* instance, the listener that start() created has the host and the port, and
\* serves the unit id and the registers, of that configure(): configure()
\* stores its arguments, and the start builds the listener from what is stored.
C9_RestartUsesLastConfigure ==
    [][\A s \in Servers :
          /\ \A c \in ConfigArgs : configure(s, c.host, c.port, c.unit_id, c.initials) =>
                /\ state'[s].host = c.host /\ state'[s].port = c.port
                /\ state'[s].unit_id = c.unit_id
                /\ ContentIn(top', inner', state'[s].initials) = c.initials
          /\ start_wakes(s) /\ last.seq = 3 /\ startup_exception[s].kind = "None" =>
                /\ lsn[thread[s]].st # "none"
                /\ lsn[thread[s]].host = state[s].host
                /\ lsn[thread[s]].port = state[s].port
                /\ lsn[thread[s]].ctx =
                       BuildDatastore(Content(state[s].initials), state[s].unit_id)]_vars
C9_Witness ==
    /\ After("start", "battery", "returned")
    /\ last.seq = 3
    /\ lsn[thread["battery"]].st = "bound"
    /\ lsn[thread["battery"]].port = 5021
    /\ lsn[thread["battery"]].ctx.unit_id = 2
    /\ lsn[thread["battery"]].ctx.hr = <<0, 7>>
    /\ \E t \in TIDs : t # thread["battery"] /\ th[t].pc = "done"

(***************************************************************************)
(* Properties of the manager (SpecMgr)                                     *)
(***************************************************************************)
\* C8: configure() and apply_configuration() start and stop nothing and leave
\* every listener as it is: the running flags, the threads, the event loops
\* and the listeners with their hosts and ports are the same after the call.
ConfigureCall ==
    /\ caller = Idle
    /\ last'.op \in {"configure", "apply_configuration"}
    /\ \/ \E s \in Servers, c \in Configs :
             configure(s, Section(c, s).host, Section(c, s).port, Section(c, s).unit_id, IniA)
       \/ \E c \in Configs : apply_configuration(c)
C8_ConfigureFrame ==
    [][ConfigureCall =>
          /\ UNCHANGED <<running, thread, loop, server, shutdown_event, startup_event,
                         startup_exception>>
          /\ UNCHANGED threadVars]_vars
C8_Witness ==
    /\ After("apply_configuration", "master", "returned")
    /\ is_running("battery")
    /\ lsn[thread["battery"]].st = "bound"
    /\ lsn[thread["battery"]].port = 5020
    /\ state["battery"].port = 5021

(***************************************************************************)
(* Properties of the initials mappings (SpecHeap)                          *)
(***************************************************************************)
\* A caller mutates, at either level, the mapping holder o refers to.
Mutates(o) ==
    \E t \in RegTypes :
        \/ replace_type(o, t)
        \/ delete_type(o, t)
        \/ \E k \in MutKeys, v \in MutValues : set_value(o, t, k, v)

\* C10: after apply_configuration, a mutation of the mapping one of the
\* battery server, the master server and the configuration holds, at either
\* level, changes neither of the other two mappings.
C10_IndependentInitials ==
    [][\A o \in Owners : last.op = "apply_configuration" /\ Mutates(o) =>
          \A p \in Owners \ {o} :
              ContentIn(top', inner', Holder(p)) = Content(Holder(p))]_vars
C10_Witness ==
    /\ last.op = "apply_configuration"
    /\ nmut > 0
    /\ Content(Holder("battery")) # Content(Holder("master"))
    /\ Content(Holder("battery")) # Content("cfg")
    /\ Content(Holder("master")) # Content("cfg")

(***************************************************************************)
(* ServerManager.stop_all: both servers, started in any order, stopped     *)
(* together                                                                *)
(***************************************************************************)
\* call_soon_threadsafe in stop() raises: the loop of a running instance is closed.
StopRaises(s) ==
    is_running(s) /\ loop[s] # NoRef /\ shutdown_event[s] # NoRef /\ loopSt[loop[s]] = "closed"

\* BaseServer.stop up to the join, called inside a longer handler of the UI
\* thread, which goes on at joining when the join is entered and at after
\* when stop() returned at once, and is left when stop() raised.
stop_within(s, joining, after) ==
    IF ~is_running(s)
    THEN /\ caller' = after
         /\ UNCHANGED <<pending, running>>
    ELSE IF StopRaises(s)
    THEN /\ caller' = Idle
         /\ UNCHANGED <<pending, running>>
    ELSE /\ pending' = IF loop[s] # NoRef /\ shutdown_event[s] # NoRef
                       THEN [pending EXCEPT ![loop[s]] = @ \cup {shutdown_event[s]}]
                       ELSE pending
         /\ IF thread[s] # NoRef
            THEN /\ caller' = joining
                 /\ UNCHANGED running
            ELSE /\ running' = [running EXCEPT ![s] = FALSE]
                 /\ caller' = after

\* The result of a handler that is left when stop() on s raises and is
\* otherwise not finished yet.
StopResult(s, otherwise) == IF StopRaises(s) THEN "raised" ELSE otherwise

\* ServerManager.stop_all up to the first join: battery_server.stop().
stop_all ==
    /\ caller.pc = "idle"
    /\ stop_within("battery", [pc |-> "stop_all_join", srv |-> "battery"],
                   [pc |-> "stop_all_master", srv |-> "master"])
    /\ last' = Call("stop_all", "battery", StopResult("battery", "pending"))
    /\ UNCHANGED <<state, loop, thread, server, shutdown_event, startup_event,
                   startup_exception, th, loopSt, evSet, lsn>>
    /\ UNCHANGED heapVars

\* A faulty stop_all(): returns without master_server.stop().
stop_all_without_master ==
    /\ caller = [pc |-> "stop_all_master", srv |-> "master"]
    /\ caller' = Idle
    /\ last' = [last EXCEPT !.srv = "master", !.result = "returned"]
    /\ UNCHANGED instanceVars
    /\ UNCHANGED heapVars
    /\ UNCHANGED threadVars

\* ServerManager.stop_all: master_server.stop() up to its join.
stop_all_master ==
    /\ caller = [pc |-> "stop_all_master", srv |-> "master"]
    /\ stop_within("master", [pc |-> "stop_all_join", srv |-> "master"], Idle)
    /\ last' = [last EXCEPT !.srv = "master",
                            !.result = IF caller'.pc = "idle"
                                       THEN StopResult("master", "returned")
                                       ELSE "pending"]
    /\ UNCHANGED <<state, loop, thread, server, shutdown_event, startup_event,
                   startup_exception, th, loopSt, evSet, lsn>>
    /\ UNCHANGED heapVars

\* ServerManager.stop_all after a join (which returns when the thread has
\* finished, or after 5 seconds): _running.clear(); after the battery
\* server's stop() comes the master server's, after that one the return.
stop_all_joined(s) ==
    /\ caller = [pc |-> "stop_all_join", srv |-> s]
    /\ running' = [running EXCEPT ![s] = FALSE]
    /\ caller' = IF s = "battery" THEN [pc |-> "stop_all_master", srv |-> "master"] ELSE Idle
    /\ last' = IF s = "battery" THEN last ELSE [last EXCEPT !.result = "returned"]
    /\ UNCHANGED <<state, loop, thread, server, shutdown_event, startup_event,
                   startup_exception>>
    /\ UNCHANGED heapVars
    /\ UNCHANGED threadVars

NextAll ==
    \/ \E c \in Configs : apply_configuration(c)
    \/ \E s \in Servers : start(s)
    \/ \E s \in Servers : start_wakes(s)
    \/ stop_all
    \/ stop_all_master
    \/ \E s \in Servers : stop_all_joined(s)
    \/ \E t \in TIDs : run_new_loop(t)
    \/ \E t \in TIDs : run_new_event(t)
    \/ \E t \in TIDs : run_until_complete(t)
    \/ \E t \in TIDs : async_build_datastore(t)
    \/ \E t \in TIDs : async_new_server(t)
    \/ \E t \in TIDs : async_serve(t)
    \/ \E t \in TIDs : async_set_running(t)
    \/ \E t \in TIDs : async_set_startup(t)
    \/ \E t \in TIDs : async_wait_shutdown(t)
    \/ \E t \in TIDs : loop_callbacks(t)
    \/ \E t \in TIDs : except_store(t)
    \/ \E t \in TIDs : except_signal(t)
    \/ \E t \in TIDs : finally_shutdown(t)
    \/ \E t \in TIDs : finally_clear_running(t)
    \/ \E t \in TIDs : finally_clear_event(t)
    \/ \E t \in TIDs : finally_drop_server(t)
    \/ \E t \in TIDs : run_teardown(t)

SpecAll == Init /\ [][NextAll]_vars

\* C11: whatever the two servers were doing before, stop_all() returns
\* without raising, and when it has returned is_running() is false on both
\* servers; a server that was already stopped neither raises nor keeps the
\* other one from being stopped.
C11_StopAllStopsBoth ==
    /\ last.op = "stop_all" => last.result # "raised"
    /\ (caller = Idle /\ last.op = "stop_all") =>
          /\ last.result = "returned"
          /\ \A s \in Servers : ~is_running(s)

\* stop_all() has returned after it stopped a running master server whose
\* thread did not finish in time, the battery server being stopped already.
C11_Witness ==
    /\ caller = Idle /\ last.op = "stop_all" /\ last.result = "returned"
    /\ thread["master"] # NoRef /\ lsn[thread["master"]].st = "bound"
    /\ BoundListeners("battery") = {}

(***************************************************************************)
(* MainWindow._open_config_dialog: an accepted configuration dialog stops  *)
(* the running servers, applies the configuration and starts them again    *)
(***************************************************************************)
\* The UI thread inside _open_config_dialog: its position, the server the
\* next call is made on, the locals running_battery, running_master and
\* new_config, and the calls on the server manager it has made so far.
Dialog(pc, s, rb, rm, config, calls) ==
    [pc |-> pc, srv |-> s, running_battery |-> rb, running_master |-> rm,
     new_config |-> config, calls |-> calls]
WasRunning(s) == IF s = "battery" THEN caller.running_battery ELSE caller.running_master
\* The position pc on server s, the call op having been made (or none, "").
DialogAt(pc, s, op) ==
    [caller EXCEPT !.pc = pc, !.srv = s,
                   !.calls = IF op = "" THEN @ ELSE Append(@, <<op, caller.srv>>)]
\* The outcome of _open_config_dialog.
DialogResult(result, at) ==
    [op |-> "reconfigure", srv |-> "master", result |-> result, seq |-> 0,
     running_battery |-> at.running_battery, running_master |-> at.running_master,
     calls |-> at.calls]
\* Where the handler goes on after its stop() and after its start() on s.
AfterStop(s, op) ==
    IF s = "battery" THEN DialogAt("dialog_stop", "master", op)
                     ELSE DialogAt("dialog_apply", "master", op)
AfterStart(s, op) ==
    IF s = "battery" THEN DialogAt("dialog_start", "master", op) ELSE Idle
DialogLast(s, op) ==
    IF s = "battery" THEN last ELSE DialogResult("returned", DialogAt("idle", "master", op))

\* The dialog is accepted with new_config: is_running() of both servers.
accept_config(config) ==
    /\ caller.pc = "idle"
    /\ caller' = Dialog("dialog_stop", "battery", is_running("battery"),
                        is_running("master"), config, <<>>)
    /\ last' = Call("reconfigure", "battery", "pending")
    /\ UNCHANGED instanceVars
    /\ UNCHANGED heapVars
    /\ UNCHANGED threadVars

\* A faulty _open_config_dialog: applies the configuration with the master
\* server still running.
dialog_stop_battery_only(s) ==
    /\ caller.pc = "dialog_stop" /\ caller.srv = s
    /\ IF WasRunning(s) /\ s = "battery"
       THEN /\ stop_within(s, DialogAt("dialog_join", s, "stop"), AfterStop(s, "stop"))
            /\ last' = IF StopRaises(s)
                       THEN DialogResult("raised", DialogAt("idle", s, "stop"))
                       ELSE last
       ELSE /\ caller' = AfterStop(s, "")
            /\ UNCHANGED <<pending, running, last>>
    /\ UNCHANGED <<state, loop, thread, server, shutdown_event, startup_event,
                   startup_exception, th, loopSt, evSet, lsn>>
    /\ UNCHANGED heapVars

\* if running_<s>: <s>_server.stop(), up to the join.
dialog_stop(s) ==
    /\ caller.pc = "dialog_stop" /\ caller.srv = s
    /\ IF WasRunning(s)
       THEN /\ stop_within(s, DialogAt("dialog_join", s, "stop"), AfterStop(s, "stop"))
            /\ last' = IF StopRaises(s)
                       THEN DialogResult("raised", DialogAt("idle", s, "stop"))
                       ELSE last
       ELSE /\ caller' = AfterStop(s, "")
            /\ UNCHANGED <<pending, running, last>>
    /\ UNCHANGED <<state, loop, thread, server, shutdown_event, startup_event,
                   startup_exception, th, loopSt, evSet, lsn>>
    /\ UNCHANGED heapVars

\* <s>_server.stop() after the join: _running.clear().
dialog_joined(s) ==
    /\ caller.pc = "dialog_join" /\ caller.srv = s
    /\ running' = [running EXCEPT ![s] = FALSE]
    /\ caller' = AfterStop(s, "")
    /\ UNCHANGED <<state, loop, thread, server, shutdown_event, startup_event,
                   startup_exception, last>>
    /\ UNCHANGED heapVars
    /\ UNCHANGED threadVars

\* server_manager.apply_configuration(new_config).
dialog_apply ==
    /\ caller.pc = "dialog_apply"
    /\ LET copy == [s \in Servers |-> deepcopy("cfg", s)]
           config == caller.new_config
       IN  /\ state' = [s \in Servers |->
                          ServerState(Section(config, s).host, Section(config, s).port,
                                      Section(config, s).unit_id, copy[s].ref)]
           /\ top' = [o \in Owners |-> IF o \in Servers /\ copy[o].ref = o
                                        THEN copy[o].top ELSE top[o]]
           /\ inner' = [o \in Owners |-> IF o \in Servers /\ copy[o].ref = o
                                          THEN copy[o].inner ELSE inner[o]]
    /\ caller' = DialogAt("dialog_start", "battery", "apply_configuration")
    /\ UNCHANGED <<loop, thread, server, shutdown_event, startup_event, running,
                   startup_exception, nmut, last>>
    /\ UNCHANGED threadVars

\* if running_<s>: <s>_server.start(), up to the wait.
dialog_start(s) ==
    /\ caller.pc = "dialog_start" /\ caller.srv = s
    /\ IF ~WasRunning(s)
       THEN /\ caller' = AfterStart(s, "")
            /\ last' = DialogLast(s, "")
            /\ UNCHANGED <<startup_event, startup_exception, thread, th, lsn>>
       ELSE IF is_running(s)
       THEN /\ caller' = AfterStart(s, "start")
            /\ last' = DialogLast(s, "start")
            /\ UNCHANGED <<startup_event, startup_exception, thread, th, lsn>>
       ELSE /\ \E t \in TIDs : Reusable(t, s)
            /\ startup_event' = [startup_event EXCEPT ![s] = FALSE]
            /\ startup_exception' = [startup_exception EXCEPT ![s] = NoExc]
            /\ thread' = [thread EXCEPT ![s] = NewThread(s)]
            /\ th' = [th EXCEPT ![NewThread(s)] = [NoThread EXCEPT !.pc = "r1", !.srv = s]]
            /\ lsn' = [lsn EXCEPT ![NewThread(s)] = NoListener]
            /\ caller' = DialogAt("dialog_wait", s, "start")
            /\ UNCHANGED last
    /\ UNCHANGED <<state, loop, server, shutdown_event, running, loopSt, pending, evSet>>
    /\ UNCHANGED heapVars

\* <s>_server.start() after the wait: the exception it raises is caught and
\* shown in a message box.
dialog_start_wakes(s) ==
    /\ caller.pc = "dialog_wait" /\ caller.srv = s
    /\ startup_event[s]
    /\ caller' = AfterStart(s, IF startup_exception[s].kind # "None" THEN "critical" ELSE "")
    /\ last' = DialogLast(s, IF startup_exception[s].kind # "None" THEN "critical" ELSE "")
    /\ UNCHANGED instanceVars
    /\ UNCHANGED heapVars
    /\ UNCHANGED threadVars

NextDialog ==
    \/ \E c \in Configs : accept_config(c)
    \/ \E s \in Servers : dialog_stop(s)
    \/ \E s \in Servers : dialog_joined(s)
    \/ dialog_apply
    \/ \E s \in Servers : dialog_start(s)
    \/ \E s \in Servers : dialog_start_wakes(s)
    \/ \E s \in Servers : start(s)
    \/ \E s \in Servers : start_wakes(s)
    \/ \E t \in TIDs : run_new_loop(t)
    \/ \E t \in TIDs : run_new_event(t)
    \/ \E t \in TIDs : run_until_complete(t)
    \/ \E t \in TIDs : async_build_datastore(t)
    \/ \E t \in TIDs : async_new_server(t)
    \/ \E t \in TIDs : async_serve(t)
    \/ \E t \in TIDs : async_set_running(t)
    \/ \E t \in TIDs : async_set_startup(t)
    \/ \E t \in TIDs : async_wait_shutdown(t)
    \/ \E t \in TIDs : loop_callbacks(t)
    \/ \E t \in TIDs : except_store(t)
    \/ \E t \in TIDs : except_signal(t)
    \/ \E t \in TIDs : finally_shutdown(t)
    \/ \E t \in TIDs : finally_clear_running(t)
    \/ \E t \in TIDs : finally_clear_event(t)
    \/ \E t \in TIDs : finally_drop_server(t)
    \/ \E t \in TIDs : run_teardown(t)

SpecDialog == Init /\ [][NextDialog]_vars

\* The calls on the two servers and the manager that the reconfiguration of
\* the servers running or not makes, the message boxes left out.
ReconfigureCalls(rb, rm) ==
    (IF rb THEN << <<"stop", "battery">> >> ELSE <<>>)
    \o (IF rm THEN << <<"stop", "master">> >> ELSE <<>>)
    \o << <<"apply_configuration", "master">> >>
    \o (IF rb THEN << <<"start", "battery">> >> ELSE <<>>)
    \o (IF rm THEN << <<"start", "master">> >> ELSE <<>>)
CallsMade(calls) == SelectSeq(calls, LAMBDA c : c[1] # "critical")

\* C12: when a new configuration is accepted, every server that is running
\* then is stopped before apply_configuration is called, no server is running
\* when it is called, and start() is attempted on those servers afterwards; a
\* server that was not running is neither stopped nor started; a restart of
\* the battery server that failed is followed by the master server's.
C12_ReconfigureStopsAppliesStarts ==
    /\ caller.pc = "dialog_apply" => \A s \in Servers : ~is_running(s)
    /\ last.op = "reconfigure" => last.result # "raised"
    /\ (caller = Idle /\ last.op = "reconfigure") =>
          /\ last.result = "returned"
          /\ CallsMade(last.calls) = ReconfigureCalls(last.running_battery, last.running_master)

\* Both servers were running when the configuration was accepted, the
\* battery server's restart failed and the master server's was made after it.
C12_Witness ==
    /\ caller = Idle /\ last.op = "reconfigure" /\ last.result = "returned"
    /\ last.running_battery /\ last.running_master
    /\ \E i \in 1..Len(last.calls) :
          /\ last.calls[i] = <<"critical", "battery">>
          /\ \E j \in (i + 1)..Len(last.calls) : last.calls[j] = <<"start", "master">>

(***************************************************************************)
(* data_model.py and client.py: single calls, their arguments drawn from   *)
(* bounded sets                                                            *)
(***************************************************************************)
\* How far around 0 and around each register base the addresses are drawn.
AddrSlack == 2
\* The longest text drawn over TextChars, and over SepChars.
MaxLen == 3
MaxSepLen == 7

TextChars == {"0", "1", "7", "-", "+", " ", "x", "_", "i", "n", "f", "a", "s", ".", ","}
SepChars == {"0", "1", ".", ","}
Texts(chars, n) == UNION {[1..m -> chars] : m \in 0..n}
\* Longer texts: hexadecimal and exponent forms, the special values.
ExtraTexts ==
    { <<"0", "x", "1", "f">>, <<"0", "0", "0", "0", "1">>, <<"4", "0", "0", "0", "1">>,
      <<"1", "e", "1">>, <<"1", "e", "-", "1">>, <<"1", "0", "e", "-", "1">>,
      <<"s", "n", "a", "n">>, <<"N", "a", "N">>, <<"I", "n", "f">>,
      <<"i", "n", "f", "i", "n", "i", "t", "y">> }
AllTexts == Texts(TextChars, MaxLen) \cup Texts(SepChars, MaxSepLen) \cup ExtraTexts

\* The addresses drawn: ints around 0 and around every base, and short texts.
IntAddresses ==
    {b + d : b \in {0} \cup {REGISTER_BASES[t] : t \in RegTypes}, d \in (0 - AddrSlack)..AddrSlack}
AddressTexts == Texts(TextChars, MaxLen) \cup ExtraTexts

\* A call the UI thread is about to make, and the call made with its result.
Pending(op, args) == [op |-> op, args |-> args, done |-> FALSE, result |-> Raise("None")]
Done(result) == [last EXCEPT !.done = TRUE, !.result = result]
Returned(op) == last.op = op /\ last.done

Call_human_to_offset(register_type, address) ==
    last = Pending("human_to_offset", [register_type |-> register_type, address |-> address])

\* human_to_offset
human_to_offset ==
    /\ last.op = "human_to_offset" /\ ~last.done
    /\ last' = Done(HumanToOffset(last.args.register_type, last.args.address))
    /\ UNCHANGED <<instanceVars, heapVars, threadVars, caller>>

\* The raw values drawn: bool, int, float in tenths, and text.
MaxTenths == 15
PyNumbers ==
    {PyBool(TRUE), PyBool(FALSE)} \cup {PyInt(n) : n \in -1..2}
    \cup {PyFloat(f) : f \in (0 - MaxTenths)..MaxTenths}

Call_parse_register_value(value) == last = Pending("parse_register_value", [value |-> value])

\* parse_register_value
parse_register_value ==
    /\ last.op = "parse_register_value" /\ ~last.done
    /\ last' = Done(ParseRegisterValue(last.args.value))
    /\ UNCHANGED <<instanceVars, heapVars, threadVars, caller>>

\* The mappings drawn for a register type: up to MaxEntries entries with
\* distinct addresses, negative, in offset form and in human form, with
\* values that parse and one that does not.
MaxEntries == 3
MapKeys(t) ==
    {PyInt(a) : a \in {-1, 0, 1, REGISTER_BASES[t], REGISTER_BASES[t] + 1}}
    \cup {PyStr(<<"-", "2">>)}
MapValues == {PyInt(5), PyInt(9), PyStr(<<"1", ".", "0", "0", "0", ",", "0">>), PyStr(<<"x">>)}
Mappings(t) ==
    {m \in UNION {[1..n -> {Entry(k, v) : k \in MapKeys(t), v \in MapValues}] : n \in 0..MaxEntries} :
        \A i, j \in 1..Len(m) : i # j => m[i].k # m[j].k}

\* DEFAULT_CONFIG: the configuration written to config.json when there is
\* none. (The "unit_id" entry of its initial_registers is no register type
\* and is read by nothing.)
DEFAULT_CONFIG ==
    [battery_server |-> CfgDefault.battery_server,
     master_server |-> CfgDefault.master_server,
     initial_registers |->
        [holding |-> <<Entry(PyStr(<<"4", "0", "0", "0", "1">>), PyInt(1)), Entry(PyStr(<<"4", "0", "0", "0", "2">>), PyInt(0)), Entry(PyStr(<<"4", "0", "0", "1", "0">>), PyInt(1234))>>,
         input |-> <<Entry(PyStr(<<"3", "0", "0", "0", "1">>), PyInt(3700)), Entry(PyStr(<<"3", "0", "0", "0", "2">>), PyInt(251))>>,
         coils |-> <<Entry(PyStr(<<"0", "0", "0", "0", "1">>), PyInt(1)), Entry(PyStr(<<"0", "0", "0", "0", "2">>), PyInt(0))>>,
         discrete |-> <<Entry(PyStr(<<"1", "0", "0", "0", "1">>), PyInt(1)), Entry(PyStr(<<"1", "0", "0", "0", "2">>), PyInt(0))>>]]

Call_to_block(register_type, values) ==
    last = Pending("to_block", [register_type |-> register_type, values |-> values])

\* RegisterInitialisation.to_block
to_block ==
    /\ last.op = "to_block" /\ ~last.done
    /\ last' = Done(ToBlock(last.args.register_type, last.args.values))
    /\ UNCHANGED <<instanceVars, heapVars, threadVars, caller>>

(***************************************************************************)
(* client.py                                                               *)
(***************************************************************************)
READABLE_TYPES == {"holding", "input", "coils", "discrete"}
WRITABLE_TYPES == {"holding", "coils"}

\* str.lower() of the register types drawn.
StrLower(t) == CASE t = "HOLDING" -> "holding" [] t = "Coils" -> "coils" [] OTHER -> t

\* A list value of write_register.
PyList(items) == [kind |-> "list", val |-> items]

\* int(text): surrounding whitespace, a sign, decimal digits with single
\* underscores between them.
PyIntDecimalBody(body) ==
    IF body # <<>> /\ UnderscoresOk(body, FALSE) /\ IsDecDigits(DropUnderscores(body))
    THEN Ok(DigitsValue(DropUnderscores(body), 10, 0))
    ELSE Raise("ValueError")
PyIntDecimalSigned(t) ==
    IF t # <<>> /\ Head(t) = "-" THEN Negated(PyIntDecimalBody(Tail(t)))
    ELSE IF t # <<>> /\ Head(t) = "+" THEN PyIntDecimalBody(Tail(t))
    ELSE PyIntDecimalBody(t)
\* int(v) of a scalar: a float is truncated towards zero.
PyIntOf(v) ==
    IF v.kind \in {"int", "bool"} THEN Ok(v.val)
    ELSE IF v.kind = "float"
         THEN Ok(IF v.val >= 0 THEN v.val \div 10 ELSE 0 - ((0 - v.val) \div 10))
    ELSE IF v.kind = "str" THEN PyIntDecimalSigned(Strip(v.val))
    ELSE Raise("TypeError")

\* The outcome of a client call: returned, or the exception raised and the
\* statement that raised it; the connections opened (ModbusTcpClient
\* created and connect() called), the library function called on the
\* connection with its arguments, and the calls of client.close().
NoRequest == [fn |-> "none", offset |-> 0, unit_id |-> 0, count |-> 0, values |-> <<>>]
Request(fn, offset, unit_id, count, values) ==
    [fn |-> fn, offset |-> offset, unit_id |-> unit_id, count |-> count, values |-> values]
ClientResult(outcome, site, connects, request, closes) ==
    [outcome |-> outcome, site |-> site, connects |-> connects, request |-> request,
     closes |-> closes]
\* A ValueError raised before _connect_client.
Rejected(site) == ClientResult("ValueError", site, 0, NoRequest, 0)

\* _connect_client: the connection is made, or connect() returns false
\* (ClientError), or the library raises; no connection to a port outside
\* 1..65535 is made.
ConnectClient(port, env) ==
    IF env.connect = "connected" /\ port \notin 1..65535 THEN "refused" ELSE env.connect

\* A faulty client without the finally clause: an exception of the library
\* that is not caught leaves the connection open.
RequestedWithoutFinally(request, env) ==
    CASE env.response = "ok" -> ClientResult("returned", "return", 1, request, 1)
      [] env.response = "error" -> ClientResult("ClientError", "isError", 1, request, 1)
      [] env.response = "ModbusException" -> ClientResult("ClientError", "except", 1, request, 1)
      [] OTHER -> ClientResult(env.response, "library", 1, request, 0)

\* The call on the connection and what follows it: the response, an error
\* response, or an exception of the library (a ModbusException becomes a
\* ClientError, any other propagates); finally client.close().
Requested(request, env) ==
    CASE env.response = "ok" -> ClientResult("returned", "return", 1, request, 1)
      [] env.response = "error" -> ClientResult("ClientError", "isError", 1, request, 1)
      [] env.response = "ModbusException" -> ClientResult("ClientError", "except", 1, request, 1)
      [] OTHER -> ClientResult(env.response, "library", 1, request, 1)

Connected(connect, request, env) ==
    CASE connect = "connected" -> Requested(request, env)
      [] connect = "refused" -> ClientResult("ClientError", "connect", 1, NoRequest, 1)
      [] OTHER -> ClientResult(connect, "connect()", 1, NoRequest, 0)

ReadFunction(register_type) ==
    CASE register_type = "holding" -> "read_holding_registers"
      [] register_type = "input" -> "read_input_registers"
      [] register_type = "coils" -> "read_coils"
      [] OTHER -> "read_discrete_inputs"

ReadAtOffset(register_type, offset, args, env) ==
    IF ~offset.ok THEN Rejected("int(address)")
    ELSE IF offset.val < 0 THEN Rejected("offset < 0")
    ELSE Connected(ConnectClient(args.port, env),
                   Request(ReadFunction(register_type), offset.val, args.unit_id, args.count, <<>>),
                   env)

\* A faulty read_registers: the count is tested before the register type.
ReadCountFirst(register_type, args, env) ==
    IF args.count < 1 THEN Rejected("count < 1")
    ELSE IF register_type \notin READABLE_TYPES THEN Rejected("register_type")
    ELSE ReadAtOffset(register_type, HumanToOffset(register_type, args.address), args, env)

ReadTyped(register_type, args, env) ==
    IF register_type \notin READABLE_TYPES THEN Rejected("register_type")
    ELSE IF args.count < 1 THEN Rejected("count < 1")
    ELSE ReadAtOffset(register_type, HumanToOffset(register_type, args.address), args, env)

\* read_registers
ReadRegisters(args, env) == ReadTyped(StrLower(args.register_type), args, env)

\* The values of a write to holding registers, [int(v) for v in value] or
\* int(value), and to coils, bool(v) (which never fails).
PyBoolOf(v) ==
    IF v.kind = "str" \/ v.kind = "list" THEN v.val # <<>> ELSE v.val # 0
IntsOf(value) ==
    IF value.kind = "list" THEN [i \in 1..Len(value.val) |-> PyIntOf(value.val[i])]
    ELSE <<PyIntOf(value)>>
BoolsOf(value) ==
    IF value.kind = "list" THEN [i \in 1..Len(value.val) |-> PyBoolOf(value.val[i])]
    ELSE <<PyBoolOf(value)>>

\* The conversion failed with the connection open: the error propagates
\* after client.close().
ConversionFailed(err) == ClientResult(err, "int(value)", 1, NoRequest, 1)

\* A faulty write_register: every sequence is written with write_registers,
\* a single-element one included.
WriteHoldingSequencesMulti(offset, value, ints, args, env) ==
    IF \E i \in 1..Len(ints) : ~ints[i].ok
    THEN ConversionFailed(ints[CHOOSE i \in 1..Len(ints) :
                                    ~ints[i].ok /\ \A j \in 1..(i - 1) : ints[j].ok].err)
    ELSE Requested(Request(IF value.kind = "list" THEN "write_registers" ELSE "write_register",
                           offset, args.unit_id, 0, [i \in 1..Len(ints) |-> ints[i].val]),
                   env)

WriteHolding(offset, value, ints, args, env) ==
    IF \E i \in 1..Len(ints) : ~ints[i].ok
    THEN ConversionFailed(ints[CHOOSE i \in 1..Len(ints) :
                                    ~ints[i].ok /\ \A j \in 1..(i - 1) : ints[j].ok].err)
    ELSE Requested(Request(IF value.kind = "list" /\ Len(ints) # 1
                           THEN "write_registers" ELSE "write_register",
                           offset, args.unit_id, 0, [i \in 1..Len(ints) |-> ints[i].val]),
                   env)

WriteCoils(offset, value, bools, args, env) ==
    Requested(Request(IF value.kind = "list" /\ Len(bools) # 1
                      THEN "write_coils" ELSE "write_coil",
                      offset, args.unit_id, 0, bools),
              env)

WriteConnected(register_type, offset, connect, args, env) ==
    CASE connect = "connected" ->
            IF register_type = "holding"
            THEN WriteHolding(offset, args.value, IntsOf(args.value), args, env)
            ELSE WriteCoils(offset, args.value, BoolsOf(args.value), args, env)
      [] connect = "refused" -> ClientResult("ClientError", "connect", 1, NoRequest, 1)
      [] OTHER -> ClientResult(connect, "connect()", 1, NoRequest, 0)

WriteAtOffset(register_type, offset, args, env) ==
    IF ~offset.ok THEN Rejected("int(address)")
    ELSE IF offset.val < 0 THEN Rejected("offset < 0")
    ELSE WriteConnected(register_type, offset.val, ConnectClient(args.port, env), args, env)

WriteTyped(register_type, args, env) ==
    IF register_type \notin WRITABLE_TYPES THEN Rejected("register_type")
    ELSE WriteAtOffset(register_type, HumanToOffset(register_type, args.address), args, env)

\* write_register
WriteRegister(args, env) == WriteTyped(StrLower(args.register_type), args, env)

\* What the network and the server do to a call: the connection made,
\* refused or failing in the library, and the response to the request.
Environments ==
    [connect : {"connected", "refused", "OSError"},
     response : {"ok", "error", "ModbusException", "struct.error"}]

\* The arguments drawn for the client calls.
ClientTypes == {"holding", "input", "coils", "discrete", "HOLDING", "file"}
ClientAddresses ==
    {PyInt(-1), PyInt(0), PyInt(10001), PyInt(40002),
     PyStr(<<"0", "x", "1", "f">>), PyStr(<<"x">>)}
Ports == {0, 1, 502, 65535, 65536}
UnitIds == {-1, 0, 1, 247, 248}
Counts == {-1, 0, 1, 2}
WriteValues ==
    {PyInt(5), PyBool(TRUE), PyFloat(15), PyStr(<<"1", "2">>), PyStr(<<"x">>),
     PyList(<<>>), PyList(<<PyInt(1)>>), PyList(<<PyInt(1), PyInt(2)>>),
     PyList(<<PyInt(1), PyStr(<<"x">>)>>)}

Call_read_registers(port, unit_id, register_type, address, count) ==
    last = Pending("read_registers",
                   [port |-> port, unit_id |-> unit_id, register_type |-> register_type,
                    address |-> address, count |-> count])
Call_write_register(port, unit_id, register_type, address, value) ==
    last = Pending("write_register",
                   [port |-> port, unit_id |-> unit_id, register_type |-> register_type,
                    address |-> address, value |-> value])

\* read_registers
read_registers ==
    /\ last.op = "read_registers" /\ ~last.done
    /\ \E env \in Environments : last' = Done(ReadRegisters(last.args, env))
    /\ UNCHANGED <<instanceVars, heapVars, threadVars, caller>>

\* write_register
write_register ==
    /\ last.op = "write_register" /\ ~last.done
    /\ \E env \in Environments : last' = Done(WriteRegister(last.args, env))
    /\ UNCHANGED <<instanceVars, heapVars, threadVars, caller>>

InitCalls ==
    /\ InitServers
    /\ \/ \E t \in RegTypes, a \in IntAddresses : Call_human_to_offset(t, PyInt(a))
       \/ \E t \in RegTypes, s \in AddressTexts : Call_human_to_offset(t, PyStr(s))
       \/ \E v \in PyNumbers : Call_parse_register_value(v)
       \/ \E s \in AllTexts : Call_parse_register_value(PyStr(s))
       \/ \E t \in RegTypes : \E m \in Mappings(t) : Call_to_block(t, m)
       \/ \E t \in RegTypes : Call_to_block(t, DEFAULT_CONFIG.initial_registers[t])
       \/ \E p \in Ports, u \in UnitIds, t \in ClientTypes, a \in ClientAddresses, c \in Counts :
             Call_read_registers(p, u, t, a, c)
       \/ \E p \in Ports, u \in UnitIds, t \in ClientTypes, a \in ClientAddresses, v \in WriteValues :
             Call_write_register(p, u, t, a, v)

NextCalls ==
    \/ human_to_offset
    \/ parse_register_value
    \/ to_block
    \/ read_registers
    \/ write_register

SpecCalls == InitCalls /\ [][NextCalls]_vars

\* C13: for every register type t and every integer address a,
\* human_to_offset(t, a) is a - base(t) when a >= base(t), a itself when
\* 0 <= a < base(t), and the negative a - base(t) when a < 0.
C13_OffsetPolicy ==
    (Returned("human_to_offset") /\ last.args.address.kind = "int") =>
        LET a == last.args.address.val
            base == REGISTER_BASES[last.args.register_type]
        IN  last.result = Ok(IF a >= base THEN a - base ELSE IF a >= 0 THEN a ELSE a - base)

\* An address below the base of its type was taken as the offset it is.
C13_Witness ==
    /\ Returned("human_to_offset")
    /\ last.args = [register_type |-> "holding", address |-> PyInt(30001)]
    /\ last.result = Ok(30001)

\* The offsets a mapping's addresses resolve to, and the one to_block sizes
\* its block from (max(offsets)).
OffsetsOf(register_type, values) ==
    [i \in 1..Len(values) |-> HumanToOffset(register_type, values[i].k)]
SizingOffset(register_type, values) ==
    MaxOf({OffsetsOf(register_type, values)[i].val : i \in 1..Len(values)})
AddressesResolve(register_type, values) ==
    \A i \in 1..Len(values) : OffsetsOf(register_type, values)[i].ok

\* C14: no negative offset reaches the protocol layer: read_registers and
\* write_register open no connection and make no request for an address
\* that resolves to a negative offset, and every request they make carries
\* an offset >= 0; to_block sizes its block from an offset >= 0 and fills
\* every cell from an entry of that (non-negative) offset only.
C14_NoNegativeOffsetUsed ==
    /\ (Returned("read_registers") \/ Returned("write_register")) =>
          /\ last.result.request.offset >= 0
          /\ LET t == StrLower(last.args.register_type)
                 offset == HumanToOffset(IF t \in RegTypes THEN t ELSE "holding", last.args.address)
             IN  (t \in RegTypes /\ offset.ok /\ offset.val < 0) =>
                     last.result.connects = 0 /\ last.result.request = NoRequest
    /\ (Returned("to_block") /\ last.args.values # <<>>
          /\ AddressesResolve(last.args.register_type, last.args.values)) =>
          /\ SizingOffset(last.args.register_type, last.args.values) >= 0
          /\ last.result.ok =>
                \A c \in 1..Len(last.result.data) :
                    last.result.data[c] # 0 =>
                        \E i \in 1..Len(last.args.values) :
                            /\ OffsetsOf(last.args.register_type, last.args.values)[i].val = c - 1
                            /\ ParseRegisterValue(last.args.values[i].v) = Ok(last.result.data[c])

\* The entries of a mapping that resolve to the offset, and to any offset >= 0.
EntriesAt(register_type, values, offset) ==
    {i \in 1..Len(values) : OffsetsOf(register_type, values)[i].val = offset}
EntriesKept(register_type, values) ==
    {i \in 1..Len(values) : OffsetsOf(register_type, values)[i].val >= 0}
\* The length the block of a mapping is said to have: max(1, max offset + 1).
SaidLength(register_type, values) ==
    IF values = <<>> \/ SizingOffset(register_type, values) + 1 < 1 THEN 1
    ELSE SizingOffset(register_type, values) + 1

\* C15: for every mapping whose addresses resolve (empty, all at offsets
\* >= 0, mixed, all at negative offsets) and whose values at offsets >= 0
\* parse, to_block returns a block of length max(1, max offset + 1) that
\* holds at each offset >= 0 of the mapping the parsed value of an entry at
\* that offset and 0 elsewhere; the entries at negative offsets are skipped,
\* whatever their values.
C15_BlockShape ==
    LET t == last.args.register_type
        values == last.args.values
    IN  (/\ Returned("to_block")
         /\ AddressesResolve(t, values)
         /\ \A i \in EntriesKept(t, values) : ParseRegisterValue(values[i].v).ok) =>
            /\ last.result.ok
            /\ Len(last.result.data) = SaidLength(t, values)
            /\ \A c \in 1..Len(last.result.data) :
                  IF EntriesAt(t, values, c - 1) = {} THEN last.result.data[c] = 0
                  ELSE \E i \in EntriesAt(t, values, c - 1) :
                          ParseRegisterValue(values[i].v) = Ok(last.result.data[c])

\* The entries of a mapping given by a human address (an int >= the base).
HumanEntries(register_type, values) ==
    {i \in 1..Len(values) :
        values[i].k.kind = "int" /\ values[i].k.val >= REGISTER_BASES[register_type]}

\* C16 (as stated): a block built from a mapping reads back, for each entry
\* {human_address: v} with human_address >= base, the value v at offset
\* human_address - base, also when the mapping holds further keys in offset
\* form.
C16_RoundTrip ==
    LET t == last.args.register_type
        values == last.args.values
    IN  (Returned("to_block") /\ last.result.ok) =>
            \A i \in HumanEntries(t, values) :
                Ok(last.result.data[values[i].k.val - REGISTER_BASES[t] + 1])
                    = ParseRegisterValue(values[i].v)

\* C16: a block built from a mapping reads back, for each entry
\* {human_address: v} with human_address >= base, the value v at offset
\* human_address - base, unless an entry that comes later in the mapping
\* resolves to the same offset; then the last such entry's value is read
\* back.
C16_RoundTripLastWins ==
    LET t == last.args.register_type
        values == last.args.values
    IN  (Returned("to_block") /\ last.result.ok) =>
            \A i \in HumanEntries(t, values) :
                LET same == EntriesAt(t, values, values[i].k.val - REGISTER_BASES[t])
                IN  Ok(last.result.data[values[i].k.val - REGISTER_BASES[t] + 1])
                        = ParseRegisterValue(values[MaxOf(same)].v)

\* A block was built from a human address and, after it, the same cell in
\* offset form with another value: the cell reads back the later value.
C16_Witness ==
    /\ Returned("to_block") /\ last.result.ok
    /\ last.args = [register_type |-> "holding",
                    values |-> <<Entry(PyInt(40002), PyInt(5)), Entry(PyInt(1), PyInt(9)),
                                 Entry(PyInt(40001), PyInt(5))>>]
    /\ last.result.data = <<5, 9>>

\* The text is digits, a decimal comma, and zeros only after it.
IsCommaZeroFraction(text) ==
    \E c \in 2..Len(text) :
        /\ text[c] = ","
        /\ IsDecDigits(SubSeq(text, 1, c - 1))
        /\ \A i \in (c + 1)..Len(text) : text[i] = "0"
CommaIntegerPart(text) == DigitsValue(SubSeq(text, 1, FirstChar(text, ",") - 1), 10, 0)

\* C17: parse_register_value returns the integer for a bool (0 or 1), an
\* int, a float with zero fraction, a string that is an integer literal
\* (decimal, 0x, 0o, 0b) and a decimal-comma string with zero fraction; it
\* fails with ValueError for a float with a fraction and for an empty or
\* whitespace-only string, and whenever it fails (so for every non-numeric
\* string) the error is a ValueError and no other.
C17_ParseTotal ==
    Returned("parse_register_value") =>
        LET v == last.args.value
            r == last.result
        IN  /\ v.kind \in {"bool", "int"} => r = Ok(v.val)
            /\ v.kind = "float" =>
                  IF v.val % 10 = 0 THEN r.ok /\ r.val * 10 = v.val ELSE r = Raise("ValueError")
            /\ v.kind = "str" =>
                  /\ Strip(v.val) = <<>> => r = Raise("ValueError")
                  /\ PyIntBase0(v.val).ok => r = PyIntBase0(v.val)
                  /\ IsCommaZeroFraction(v.val) => r = Ok(CommaIntegerPart(v.val))
            /\ ~r.ok => r.err = "ValueError"

\* The normalisation as it is described: every thousands separator "."
\* removed, the decimal comma made a ".".
SaidNormalised(text) == ReplaceChar(RemoveChar(text, "."), ",", ".")
IsSeparatedDigits(text) ==
    \A i \in 1..Len(text) : text[i] \in {".", ","} \/ IsDecDigits(<<text[i]>>)

\* C18: a string of digits and separators that is not an integer literal is
\* parsed as the decimal it is after every "." is removed and "," is made
\* ".": "1.000" and "1.000,0" both give 1000, and a value with a nonzero
\* fraction fails with ValueError.
C18_SeparatorsNormalised ==
    (/\ Returned("parse_register_value")
     /\ last.args.value.kind = "str"
     /\ last.args.value.val # <<>>
     /\ IsSeparatedDigits(last.args.value.val)
     /\ ~PyIntBase0(last.args.value.val).ok) =>
        last.result = DecimalToInt(PyDecimal(SaidNormalised(last.args.value.val)))

\* C19: the client validates before it connects. read_registers fails with
\* the unsupported-type ValueError when register_type (in any case) is none
\* of the four types, whatever count and address are; otherwise with the
\* ValueError of the count when count < 1, otherwise with the ValueError of
\* the address when it resolves to a negative offset. write_register fails
\* with the unsupported-type ValueError when register_type is neither
\* holding nor coils. In each of these cases no connection is opened and no
\* request is made.
C19_ValidationFirst ==
    /\ Returned("read_registers") =>
          LET t == StrLower(last.args.register_type)
          IN  IF t \notin {"holding", "input", "coils", "discrete"}
              THEN last.result = ClientResult("ValueError", "register_type", 0, NoRequest, 0)
              ELSE IF last.args.count < 1
              THEN last.result = ClientResult("ValueError", "count < 1", 0, NoRequest, 0)
              ELSE (HumanToOffset(t, last.args.address).ok
                      /\ HumanToOffset(t, last.args.address).val < 0) =>
                        last.result = ClientResult("ValueError", "offset < 0", 0, NoRequest, 0)
    /\ Returned("write_register") =>
          (StrLower(last.args.register_type) \notin {"holding", "coils"} =>
              last.result = ClientResult("ValueError", "register_type", 0, NoRequest, 0))

\* A read of an unsupported type with a count below 1 at a negative address
\* was rejected for its type.
C19_Witness ==
    /\ Returned("read_registers")
    /\ last.args.register_type = "file" /\ last.args.count = 0 /\ last.args.address = PyInt(-1)
    /\ last.result.outcome = "ValueError" /\ last.result.site = "register_type"
    /\ last.result.connects = 0

\* The arguments of a client call on a supported register type are
\* malformed: the address, the count of a read, the unit id, the port, or the
\* value of a write to holding registers.
MalformedAddress(t, args) ==
    ~HumanToOffset(t, args.address).ok \/ HumanToOffset(t, args.address).val < 0
MalformedValue(t, args) ==
    t = "holding" /\ \E i \in 1..Len(IntsOf(args.value)) : ~IntsOf(args.value)[i].ok
Malformed(op, t, args) ==
    \/ MalformedAddress(t, args)
    \/ args.unit_id \notin 0..247
    \/ args.port \notin 1..65535
    \/ IF op = "read_registers" THEN args.count < 1 ELSE MalformedValue(t, args)

\* C20: a client call on a supported register type with a malformed address,
\* count, unit id (outside 0..247), port (outside 1..65535) or write value
\* (not convertible to an int) fails with a ValueError before it opens a
\* connection or calls the protocol library; write_register opens no
\* connection for a value it then rejects.
C20_MalformedBeforeConnect ==
    \A op \in {"read_registers", "write_register"} :
        LET t == StrLower(last.args.register_type)
        IN  (/\ Returned(op)
             /\ t \in (IF op = "read_registers" THEN READABLE_TYPES ELSE WRITABLE_TYPES)
             /\ Malformed(op, t, last.args)) =>
                /\ last.result.outcome = "ValueError"
                /\ last.result.connects = 0
                /\ last.result.request = NoRequest

\* connect() returned, with a connection made or refused: the call holds a
\* client that it has to close. (When connect() itself raises, no
\* connection was opened.)
ConnectReturned(r) == r.connects = 1 /\ r.site # "connect()"

\* C21: every read_registers or write_register call that opens a connection
\* closes it exactly once before it returns or raises, on every exit path: a
\* successful response, a failed connection attempt, an error response, an
\* exception of the protocol library, an exception while the write values
\* are converted. A call that fails before it connects closes nothing, and
\* no call opens more than one connection.
C21_ClosedExactlyOnce ==
    (Returned("read_registers") \/ Returned("write_register")) =>
        /\ last.result.connects \in {0, 1}
        /\ last.result.closes = (IF ConnectReturned(last.result) THEN 1 ELSE 0)

\* A request on an open connection ended in an exception of the library
\* that the client does not catch, and the connection was closed once.
C21_Witness ==
    /\ Returned("read_registers")
    /\ last.result.site = "library" /\ last.result.outcome = "struct.error"
    /\ last.result.request.fn = "read_coils"
    /\ last.result.connects = 1 /\ last.result.closes = 1

\* The single and the multi call of a writable register type.
SingleWrite(register_type) == IF register_type = "holding" THEN "write_register" ELSE "write_coil"
MultiWrite(register_type) == IF register_type = "holding" THEN "write_registers" ELSE "write_coils"
\* The number of elements of the value of a write: one for a scalar.
Elements(value) == IF value.kind = "list" THEN Len(value.val) ELSE 1

\* C22: write_register selects the protocol call from the shape of value: a
\* scalar or a single-element sequence is written with the single-register
\* (holding) or single-coil (coils) call and one value, a sequence of two or
\* more elements with the multi-register or multi-coil call and all its
\* elements; the multi call is never issued with exactly one element, and a
\* write that returns has issued its one write call.
C22_WriteCallSelection ==
    Returned("write_register") =>
        LET t == StrLower(last.args.register_type)
            request == last.result.request
        IN  /\ request.fn # "none" =>
                  /\ request.fn \in {SingleWrite(t), MultiWrite(t)}
                  /\ Elements(last.args.value) = 1 =>
                        request.fn = SingleWrite(t) /\ Len(request.values) = 1
                  /\ Elements(last.args.value) >= 2 =>
                        /\ request.fn = MultiWrite(t)
                        /\ Len(request.values) = Elements(last.args.value)
                  /\ request.fn = MultiWrite(t) => Len(request.values) # 1
            /\ last.result.outcome = "returned" => request.fn # "none"

\* A single-element sequence was written to a holding register with the
\* single-register call, and the write returned.
C22_Witness ==
    /\ Returned("write_register")
    /\ last.args.register_type = "holding"
    /\ last.args.value = PyList(<<PyInt(1)>>)
    /\ last.result.outcome = "returned"
    /\ last.result.request.fn = "write_register"
    /\ last.result.request.values = <<1>>

\* The initials hold a register value that parse_register_value rejects.
Unparseable(initials) ==
    \E t \in RegTypes : \E i \in 1..Len(initials[t]) :
        ~ParseRegisterValue(initials[t][i].v).ok

\* C23: a register value that cannot be parsed into an integer is detected
\* when the configuration is applied: configure() with such a value among
\* its initials does not return normally with the value stored, and no
\* start() is the first call to fail for a value stored earlier.
C23_UnparseableDetectedWhenApplied ==
    \A s \in Servers :
        /\ After("configure", s, "returned") => ~Unparseable(Content(state[s].initials))
        /\ After("start", s, "raised") => ~Unparseable(Content(state[s].initials))

(***************************************************************************)
(* The configuration calls with any arguments                              *)
(***************************************************************************)
\* A section of a configuration mapping as it comes from the file or a
\* caller: the keys it has, and the values under them as Python values.
RawSection(keys, host, port, unit_id) ==
    [keys |-> keys, host |-> host, port |-> port, unit_id |-> unit_id]
SectionKeys == {"host", "port", "unit_id"}
RawSections ==
    {RawSection(SectionKeys, "0.0.0.0", PyInt(5021), PyInt(2)),
     RawSection(SectionKeys, "127.0.0.1", PyStr(<<"5", "0", "2">>), PyFloat(15)),
     RawSection(SectionKeys, "0.0.0.0", PyStr(<<"x">>), PyInt(2)),
     RawSection(SectionKeys, "0.0.0.0", PyInt(5021), PyList(<<>>)),
     RawSection({"host", "unit_id"}, "0.0.0.0", PyInt(0), PyInt(2)),
     RawSection({"port", "unit_id"}, "", PyInt(5021), PyInt(2))}
\* The configuration mappings handed to apply_configuration: the sections
\* they have, and the two server sections.
ConfigKeys == {"initial_registers", "battery_server", "master_server"}
RawConfigs ==
    [keys : {ConfigKeys, {"initial_registers", "battery_server"},
             {"battery_server", "master_server"}},
     battery_server : RawSections, master_server : RawSections]

\* The arguments of one configure() call of apply_configuration, evaluated
\* in their order: cfg["host"], int(cfg["port"]), int(cfg["unit_id"]).
SectionArgs(cfg) ==
    IF "host" \notin cfg.keys \/ "port" \notin cfg.keys THEN Raise("KeyError")
    ELSE IF ~PyIntOf(cfg.port).ok THEN Raise(PyIntOf(cfg.port).err)
    ELSE IF "unit_id" \notin cfg.keys THEN Raise("KeyError")
    ELSE IF ~PyIntOf(cfg.unit_id).ok THEN Raise(PyIntOf(cfg.unit_id).err)
    ELSE Ok([host |-> cfg.host, port |-> PyIntOf(cfg.port).val,
             unit_id |-> PyIntOf(cfg.unit_id).val])

\* ServerManager.apply_configuration on any mapping: the three sections are
\* looked up first; then the arguments for the battery server are evaluated
\* and battery_server.configure() is called, then the same for the master
\* server. An exception ends the call where it is raised.
apply_configuration_mapping(config) ==
    LET b == SectionArgs(config.battery_server)
        m == SectionArgs(config.master_server)
    IN  IF config.keys = ConfigKeys /\ b.ok /\ m.ok
        THEN apply_configuration([battery_server |-> b.val, master_server |-> m.val])
        ELSE /\ caller.pc = "idle"
             /\ IF config.keys = ConfigKeys /\ b.ok
                THEN /\ state' = [state EXCEPT !["battery"] =
                                     ServerState(b.val.host, b.val.port, b.val.unit_id,
                                                 deepcopy("cfg", "battery").ref)]
                     /\ top' = [top EXCEPT !["battery"] = deepcopy("cfg", "battery").top]
                     /\ inner' = [inner EXCEPT !["battery"] = deepcopy("cfg", "battery").inner]
                ELSE UNCHANGED <<state, top, inner>>
             /\ last' = Call("apply_configuration", "master", "raised")
             /\ UNCHANGED <<loop, thread, server, shutdown_event, startup_event, running,
                            startup_exception, nmut, caller>>
             /\ UNCHANGED threadVars

NextConfig ==
    \/ \E s \in Servers, p \in Ports, u \in UnitIds : configure(s, "0.0.0.0", p, u, IniA)
    \/ \E c \in Configs : apply_configuration(c)
    \/ \E c \in RawConfigs : apply_configuration_mapping(c)

SpecConfig == Init /\ [][NextConfig]_vars

\* C24: in every reachable state the ServerState stored in each server
\* instance has unit_id in 0..247 and port in 1..65535, whatever values were
\* given to configure() or apply_configuration().
C24_StoredStateInRange ==
    \A s \in Servers :
        /\ state[s].unit_id \in 0..247
        /\ state[s].port \in 1..65535

(***************************************************************************)
(* Properties of the handshake and of the teardown (Spec)                  *)
(***************************************************************************)
\* Thread t delivers the startup signal in this step (_startup_event.set()
\* after _running.set(), or in an except clause), and thread t writes the
\* failure-capture field in this step.
SignalStep(t) == th[t].pc \in {"a5", "h2"} /\ th'[t].pc # th[t].pc
CaptureStep(t) == th[t].pc = "h1" /\ th'[t].pc = "h2"

\* C25: for each start() that spawns a thread the startup signal is delivered
\* exactly once: the thread signals on an event that is not yet set, on
\* success with the running flag set and no error stored, on failure with
\* its error stored, and it never ends without having entered _start_async.
\* The thread writes _startup_exception only before the signal, into the
\* field start() has reset, and start() reads the field only after the
\* signal.
C25_OneSignalPerAttempt ==
    [][/\ \A t \in TIDs :
            LET s == th[t].srv
            IN  /\ SignalStep(t) =>
                     /\ ~startup_event[s]
                     /\ IF th[t].pc = "a5"
                        THEN running[s] /\ startup_exception[s] = NoExc
                        ELSE startup_exception[s] = Captured(th[t].exc)
                /\ CaptureStep(t) => ~startup_event[s] /\ startup_exception[s] = NoExc
                /\ th[t].pc = "r3" => th'[t].pc # "t1"
       /\ (caller.pc = "start_wait" /\ caller'.pc = "idle") => startup_event[caller.srv]
      ]_vars

\* C26: when stop() on a running instance returns, the thread of the
\* preceding start() has finished, its listener has been shut down and its
\* event loop is closed; no listener of the instance is bound any more.
C26_StopTearsDown ==
    \A s \in Servers :
        After("stop", s, "returned") =>
            /\ th[thread[s]].pc = "done"
            /\ loopSt[thread[s]] = "closed"
            /\ BoundListeners(s) = {}

\* start() on s has returned normally and the instance is as it has to be
\* then: running, the listener of its thread bound, the loop of its thread
\* running.
Started(s) ==
    /\ After("start", s, "returned")
    /\ is_running(s)
    /\ lsn[thread[s]].st = "bound"
    /\ loopSt[thread[s]] = "running"

\* C27: once start() has returned normally, the instance stays running with
\* its listener bound and its loop open as long as the UI thread makes no
\* further call: no step of a background thread clears the running flag,
\* shuts down the listener or closes the loop of that start().
C27_StaysRunningUntilStop ==
    [][\A s \in Servers :
          (Started(s) /\ caller' = caller /\ last' = last) =>
              /\ running'[s]
              /\ lsn'[thread[s]].st = "bound"
              /\ loopSt'[thread[s]] = "running"]_vars

(***************************************************************************)
(* configure() from a second caller while the UI thread is in start()      *)
(***************************************************************************)
\* BaseServer.configure called by another thread than the UI thread, which
\* is inside start(): the same assignment of self._state, at any moment
\* of the background thread.
configure_concurrent(s, host, port, unit_id, initials) ==
    /\ caller = [pc |-> "start_wait", srv |-> s]
    /\ state' = [state EXCEPT ![s] = ServerState(host, port, unit_id, s)]
    /\ top' = [top EXCEPT ![s] = [t \in RegTypes |-> s]]
    /\ inner' = [inner EXCEPT ![s] = initials]
    /\ UNCHANGED <<loop, thread, server, shutdown_event, startup_event, running,
                   startup_exception, nmut, caller, last>>
    /\ UNCHANGED threadVars

NextRace ==
    \/ \E c \in ConfigArgs : configure("battery", c.host, c.port, c.unit_id, c.initials)
    \/ \E c \in ConfigArgs :
          configure_concurrent("battery", c.host, c.port, c.unit_id, c.initials)
    \/ start("battery")
    \/ start_wakes("battery")
    \/ \E t \in TIDs : run_new_loop(t)
    \/ \E t \in TIDs : run_new_event(t)
    \/ \E t \in TIDs : run_until_complete(t)
    \/ \E t \in TIDs : async_build_datastore(t)
    \/ \E t \in TIDs : async_new_server(t)
    \/ \E t \in TIDs : async_serve(t)
    \/ \E t \in TIDs : async_set_running(t)
    \/ \E t \in TIDs : async_set_startup(t)
    \/ \E t \in TIDs : async_wait_shutdown(t)
    \/ \E t \in TIDs : except_store(t)
    \/ \E t \in TIDs : except_signal(t)
    \/ \E t \in TIDs : finally_shutdown(t)
    \/ \E t \in TIDs : finally_clear_running(t)
    \/ \E t \in TIDs : finally_clear_event(t)
    \/ \E t \in TIDs : finally_drop_server(t)
    \/ \E t \in TIDs : run_teardown(t)

SpecRace == Init /\ [][NextRace]_vars

\* The listener _start_async builds from the one ServerState st.
ListenerOf(st) ==
    [st |-> "built", host |-> st.host, port |-> st.port,
     ctx |-> BuildDatastore(Content(st.initials), st.unit_id)]

\* C28: the listener a start() creates is built from a single ServerState:
\* when the thread constructs the server, the datastore it built before (from
\* initials and unit id) and the host and port it binds are those of the one
\* ServerState stored at that moment, even when configure() is called by
\* another thread while the start() is in progress.
C28_SingleSnapshot ==
    [][\A t \in TIDs :
          (th[t].pc = "a2" /\ th'[t].pc = "a3") => lsn'[t] = ListenerOf(state[th[t].srv])]_vars

(***************************************************************************)
(* The lifecycle under fair scheduling, up to the first stop               *)
(***************************************************************************)
\* A step of background thread t in _run_thread or _start_async, other than
\* the build of the datastore.
ThreadStep(t) ==
    \/ run_new_loop(t)
    \/ run_new_event(t)
    \/ run_until_complete(t)
    \/ async_new_server(t)
    \/ async_serve(t)
    \/ async_set_running(t)
    \/ async_set_startup(t)
    \/ async_wait_shutdown(t)
    \/ except_store(t)
    \/ except_signal(t)
    \/ finally_shutdown(t)
    \/ finally_clear_running(t)
    \/ finally_clear_event(t)
    \/ finally_drop_server(t)
    \/ run_teardown(t)

\* A step of background thread t.
RunThread(t) == async_build_datastore(t) \/ ThreadStep(t)

NextLive ==
    \/ \E c \in ConfigArgs : configure("battery", c.host, c.port, c.unit_id, c.initials)
    \/ start("battery")
    \/ start_wakes("battery")
    \/ \E t \in TIDs : RunThread(t)

\* The scheduler lets every thread that can take a step take it, the bind
\* attempt included, and the caller of start() resumes once the startup
\* event is set; the calls of the UI are made or not. The fairness of the
\* build of the datastore is stated by its enabling condition: the step is
\* enabled exactly at a1 and leaves a1, so no thread stays there for ever.
SpecLive ==
    /\ Init /\ [][NextLive]_vars
    /\ \A t \in TIDs : WF_vars(ThreadStep(t)) /\ []<>(th[t].pc # "a1")
    /\ WF_vars(start_wakes("battery"))

\* C29: every start() on a not-running instance eventually returns or
\* raises: the caller waiting on the startup event is eventually woken.
C29_StartTerminates ==
    \A s \in Servers : (caller = [pc |-> "start_wait", srv |-> s]) ~> (caller.pc = "idle")

\* C30: apply_configuration is all-or-nothing: when it fails (a missing
\* section or key, or a port or unit_id of either server that int() does not
\* convert), the ServerState of the battery and of the master server, initials
\* included, is the same as before the call.
C30_ApplyAllOrNothing ==
    [][\A c \in RawConfigs :
          (apply_configuration_mapping(c) /\ last'.result = "raised") =>
              UNCHANGED <<state, top, inner>>]_vars

(***************************************************************************)
(* Further properties of the calls (SpecCalls)                             *)
(***************************************************************************)
\* Every address of the mapping is a non-negative int.
NonNegativeKeys(values) ==
    \A i \in 1..Len(values) : values[i].k.kind = "int" /\ values[i].k.val >= 0

\* C31: for every register type and every integer address a,
\* human_to_offset(type, a) is negative if and only if a is negative. So a
\* read or write on a supported type at a non-negative integer address, one
\* below the base of the type included, passes the validation and requests
\* the offset human_to_offset gives, and to_block of a mapping whose addresses
\* are non-negative integers and whose values parse builds a block that has
\* a cell for every one of them.
C31_NegativeIffNegative ==
    /\ (Returned("human_to_offset") /\ last.args.address.kind = "int") =>
          /\ last.result.ok
          /\ (last.result.val < 0) <=> (last.args.address.val < 0)
    /\ \A op \in {"read_registers", "write_register"} :
          LET t == StrLower(last.args.register_type)
          IN  (/\ Returned(op)
               /\ t \in (IF op = "read_registers" THEN READABLE_TYPES ELSE WRITABLE_TYPES)
               /\ op = "read_registers" => last.args.count >= 1
               /\ last.args.address.kind = "int" /\ last.args.address.val >= 0) =>
                  /\ last.result.connects = 1
                  /\ last.result.request # NoRequest =>
                        last.result.request.offset = HumanToOffset(t, last.args.address).val
    /\ (/\ Returned("to_block")
        /\ NonNegativeKeys(last.args.values)
        /\ ~Unparseable([t \in RegTypes |-> last.args.values])) =>
          /\ last.result.ok
          /\ \A i \in 1..Len(last.args.values) :
                OffsetsOf(last.args.register_type, last.args.values)[i].val
                    \in 0..(Len(last.result.data) - 1)

\* A read of holding registers at 10001, below the base 40001, requested
\* offset 10001.
C31_Witness ==
    /\ Returned("read_registers")
    /\ last.args.register_type = "holding" /\ last.args.address = PyInt(10001)
    /\ last.result.request.fn = "read_holding_registers"
    /\ last.result.request.offset = 10001

\* C32: the default configuration is startable: for every register type,
\* every address of DEFAULT_CONFIG's initial_registers resolves without
\* error to an offset >= 0 and every value parses, so that to_block builds
\* the block of the type and build_datastore for a server configured from
\* the defaults succeeds.
C32_DefaultsStartable ==
    \A t \in RegTypes :
        LET values == DEFAULT_CONFIG.initial_registers[t]
        IN  (Returned("to_block") /\ last.args = [register_type |-> t, values |-> values]) =>
                /\ \A i \in 1..Len(values) :
                      /\ HumanToOffset(t, values[i].k).ok
                      /\ HumanToOffset(t, values[i].k).val >= 0
                      /\ ParseRegisterValue(values[i].v).ok
                /\ last.result.ok
                /\ BuildDatastore(DEFAULT_CONFIG.initial_registers,
                                  DEFAULT_CONFIG.battery_server.unit_id).ok

\* C33: write_register never issues a write call that carries no value: the
\* single-register or single-coil call carries exactly one value and the
\* multi call at least two; an empty sequence is not sent to the server.
C33_NoEmptyWrite ==
    (Returned("write_register") /\ last.result.request.fn # "none") =>
        LET request == last.result.request
        IN  /\ request.fn \in {"write_register", "write_coil"} => Len(request.values) = 1
            /\ request.fn \in {"write_registers", "write_coils"} => Len(request.values) >= 2
====
